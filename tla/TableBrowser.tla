----------------------------- MODULE TableBrowser -----------------------------
(***************************************************************************)
(* The sourcetable: its lossless parse, the cached table of the last       *)
(* request, and the Casters tab that shows the one of the active profile's *)
(* caster, filters it, sorts it and fills the profile's mountpoint.        *)
(*                                                                         *)
(* A text is a sequence of letters 1, 2, ..; a capital is its letter + 10. *)
(* A line is [tag, f], f from a field's number to a text, field 0 the tag. *)
(***************************************************************************)
EXTENDS Integers, SequencesExt

CONSTANTS Tables,      \* the bodies a caster may answer with
          Callers,     \* the casters, host and port, a profile may address
          Filters

VARIABLES sourcetable,     \* <<caller, body>>, or none
          addressed,       \* the active profile's host and port
          mountpoint,      \* the active profile's
          tab, filter, sort, chosen,     \* ViewState; chosen is selected
          used             \* ghost: the mountpoint is one that Use filled in, for this caller

tbVars == <<sourcetable, addressed, mountpoint, tab, filter, sort, chosen, used>>
-------------------------------------------------------------------------------
(* sourcetable::parse *)

At(f, i)  == IF i \in DOMAIN f THEN f[i] ELSE <<>>
\* Numbers are of one letter; whatever else reads as zero.
NumAt(f, i) == IF Len(At(f, i)) = 1 THEN At(f, i)[1] ELSE 0
ParseStr(f) == [mountpoint |-> At(f, 1), identifier |-> At(f, 2), format |-> At(f, 3),
                country |-> At(f, 8), nmea_required |-> At(f, 11) = <<1>>, bitrate |-> NumAt(f, 17)]
ParseCas(f) == [host |-> At(f, 1), port |-> NumAt(f, 2), identifier |-> At(f, 3),
                operator |-> At(f, 4), country |-> At(f, 6)]
ParseNet(f) == [identifier |-> At(f, 1), operator |-> At(f, 2)]

\* fault: a line without fields is dropped
Dropped_Short(line) == line.tag \in {"blank", "ENDSOURCETABLE"} \/ DOMAIN line.f = {}
Dropped(line) == line.tag \in {"blank", "ENDSOURCETABLE"}

Records == {"STR", "CAS", "NET"}
Of(body, tag) == SelectSeq(body, LAMBDA l : l.tag = tag)
Parsed(body) ==
  [strs     |-> LET ls == Of(body, "STR") IN [i \in DOMAIN ls |-> ParseStr(ls[i].f)],
   casters  |-> LET ls == Of(body, "CAS") IN [i \in DOMAIN ls |-> ParseCas(ls[i].f)],
   networks |-> LET ls == Of(body, "NET") IN [i \in DOMAIN ls |-> ParseNet(ls[i].f)],
   unparsed |-> SelectSeq(body, LAMBDA l : ~Dropped(l) /\ l.tag \notin Records)]
-------------------------------------------------------------------------------
(* Filter and order *)

Lower(s) == [i \in DOMAIN s |-> s[i] % 10]
\* contains_ignore_ascii_case
Has(s, part) == \E i \in 0 .. Len(s) - Len(part) : SubSeq(Lower(s), i + 1, i + Len(part)) = Lower(part)
\* cmp_ci
LessText(a, b) ==
  LET x == Lower(a)  y == Lower(b)
  IN \/ IsStrictPrefix(x, y)
     \/ \E i \in DOMAIN x \cap DOMAIN y : x[i] < y[i] /\ \A j \in 1 .. i - 1 : x[j] = y[j]

StrMatches(s, part) == Has(s.mountpoint, part) \/ Has(s.identifier, part) \/ Has(s.format, part)
                         \/ Has(s.country, part)
CasMatches(c, part) == Has(c.host, part) \/ Has(c.identifier, part) \/ Has(c.operator, part)
                         \/ Has(c.country, part)
NetMatches(n, part) == Has(n.identifier, part) \/ Has(n.operator, part)

KeyLess(key, a, b) ==
  LET first(k) == CASE k = "Mount"   -> <<LessText(a.mountpoint, b.mountpoint), LessText(b.mountpoint, a.mountpoint)>>
                    [] k = "Format"  -> <<LessText(a.format, b.format), LessText(b.format, a.format)>>
                    [] k = "Country" -> <<LessText(a.country, b.country), LessText(b.country, a.country)>>
                    [] k = "Bitrate" -> <<a.bitrate < b.bitrate, b.bitrate < a.bitrate>>
  IN first(key)[1] \/ (~first(key)[2] /\ first("Mount")[1])

\* A stable sort of the rows' numbers; equal rows stay in the caster's order.
str_rows(strs, part, how) ==
  LET rows == SelectSeq([i \in DOMAIN strs |-> i], LAMBDA i : StrMatches(strs[i], part))
      less(i, j) == IF how[2] THEN KeyLess(how[1], strs[i], strs[j]) ELSE KeyLess(how[1], strs[j], strs[i])
  IN IF how = <<>> THEN rows
     ELSE SortSeq(rows, LAMBDA i, j : less(i, j) \/ (~less(j, i) /\ i < j))

Count(s, of(_)) == Len(SelectSeq(s, of))
\* The footer's "filter shows"
Shown(t) == CASE tab = "Str" -> Len(str_rows(t.strs, filter, <<>>))
              [] tab = "Cas" -> Count(t.casters, LAMBDA c : CasMatches(c, filter))
              [] tab = "Net" -> Count(t.networks, LAMBDA n : NetMatches(n, filter))
              [] OTHER -> Count(t.unparsed, LAMBDA l : Has(At(l.f, 1), filter))
-------------------------------------------------------------------------------
(* The tab: one frame an action *)

\* fault: the table shown is the last one whoever it is of
Visible_Any(s, caller) == s # <<>>
\* Only a table of the caster the profile addresses is shown.
Visible(s, caller) == s # <<>> /\ s[1] = caller
Table == Parsed(sourcetable[2])

\* fault: the selection is trusted, not looked up
Resolved_Raw(strs) == IF chosen = <<>> THEN {} ELSE {chosen}
\* resolve_selection
Resolved(strs) == {s.mountpoint : s \in {r \in ToSet(strs) : r.mountpoint = chosen}}

Unchosen == UNCHANGED <<sourcetable, addressed, mountpoint, used>>

\* sync_view runs in every frame that shows a table.
Synced(t) == IF t = "Unparsed" /\ Table.unparsed = <<>> THEN "Str" ELSE t
OpenTab == \E t \in {"Str", "Cas", "Net", "Unparsed"} :
  /\ Visible(sourcetable, addressed)
  /\ tab' = Synced(t) /\ UNCHANGED <<filter, sort, chosen>> /\ Unchosen
Filter == \E p \in Filters : filter' = p /\ UNCHANGED <<tab, sort, chosen>> /\ Unchosen

\* ascending, descending, the caster's order
SortHeader == \E key \in {"Mount", "Format", "Country", "Bitrate"} :
  /\ Visible(sourcetable, addressed) /\ tab = "Str"
  /\ sort' = IF sort = <<key, TRUE>> THEN <<key, FALSE>>
             ELSE IF sort = <<key, FALSE>> THEN <<>> ELSE <<key, TRUE>>
  /\ UNCHANGED <<tab, filter, chosen>> /\ Unchosen

Rows == str_rows(Table.strs, filter, sort)
SelectRow == /\ Visible(sourcetable, addressed) /\ tab = "Str"
             /\ \E i \in ToSet(Rows) : chosen' = Table.strs[i].mountpoint
             /\ UNCHANGED <<tab, filter, sort>> /\ Unchosen
\* A double click selects and uses.
UseRow == /\ Visible(sourcetable, addressed) /\ tab = "Str"
          /\ \E i \in ToSet(Rows) : chosen' = Table.strs[i].mountpoint /\ mountpoint' = chosen'
          /\ used' = TRUE
          /\ UNCHANGED <<sourcetable, addressed, tab, filter, sort>>
\* The footer's button, whatever the tab
Use == /\ Visible(sourcetable, addressed)
       /\ \E m \in Resolved(Table.strs) : mountpoint' = m
       /\ used' = TRUE
       /\ UNCHANGED <<sourcetable, addressed, tab, filter, sort, chosen>>

\* A table arrives, of the caster asked, which is the active one's unless its
\* host has been edited since; the next frame shows it.
SourcetableReady == \E c \in Callers : \E body \in Tables :
  /\ sourcetable' = <<c, body>>
  /\ tab' = IF tab = "Unparsed" /\ c = addressed /\ Parsed(body).unparsed = <<>> THEN "Str" ELSE tab
  /\ used' = FALSE
  /\ UNCHANGED <<addressed, mountpoint, filter, sort, chosen>>

\* The host is edited, or the profile is another one.
Address == \E c \in Callers : \E b \in BOOLEAN :
  /\ addressed' = c /\ mountpoint' = <<>> /\ used' = FALSE
  /\ sourcetable' = IF b THEN <<>> ELSE sourcetable
  /\ tab' = IF ~b /\ tab = "Unparsed" /\ Visible(sourcetable, c) THEN Synced(tab) ELSE tab
  /\ UNCHANGED <<filter, sort, chosen>>

TableInit == /\ sourcetable = <<>> /\ addressed = (CHOOSE c \in Callers : TRUE) /\ mountpoint = <<>>
             /\ tab = "Str" /\ filter = <<>> /\ sort = <<>> /\ chosen = <<>> /\ used = FALSE
TableNext == \/ OpenTab \/ Filter \/ SortHeader \/ SelectRow \/ UseRow \/ Use
             \/ SourcetableReady \/ Address
TableSpec == TableInit /\ [][TableNext]_tbVars
-------------------------------------------------------------------------------
(* Properties *)

\* "Identifying by semantic key makes stale selection structurally impossible":
\* what Use filled in is a stream of the table of the caster the profile
\* addresses, as that table is now.
UseIsOfThisTable ==
  used => /\ Visible(sourcetable, addressed) /\ sourcetable[1] = addressed
          /\ \E l \in ToSet(sourcetable[2]) : l.tag = "STR" /\ At(l.f, 1) = mountpoint

\* "nothing a caster sends is hidden": every line that is not blank or the
\* terminator is in one of the four tabs, the rows are those that match, each
\* once, in the caster's order unless a header says otherwise.
NothingHidden ==
  Visible(sourcetable, addressed) =>
    LET t == Table
        lines == SelectSeq(sourcetable[2], LAMBDA l : l.tag \notin {"blank", "ENDSOURCETABLE"})
        s == t.strs
        key(i) == CASE sort[1] = "Mount" -> Lower(s[i].mountpoint) [] sort[1] = "Format" -> Lower(s[i].format)
                    [] sort[1] = "Country" -> Lower(s[i].country) [] OTHER -> <<s[i].bitrate>>
    IN /\ Len(lines) = Len(s) + Len(t.casters) + Len(t.networks) + Len(t.unparsed)
       /\ IsInjective(Rows) /\ ToSet(Rows) = {i \in DOMAIN s : StrMatches(s[i], filter)}
       /\ \A k \in 1 .. Len(Rows) - 1 :
            LET a == Rows[k]  b == Rows[k + 1]
            IN IF sort = <<>> THEN a < b
               ELSE ~LessText(IF sort[2] THEN key(b) ELSE key(a), IF sort[2] THEN key(a) ELSE key(b))
       /\ tab = "Unparsed" => t.unparsed # <<>>
       /\ filter = <<>> => Shown(t) = [Str |-> Len(s), Cas |-> Len(t.casters),
                                       Net |-> Len(t.networks), Unparsed |-> Len(t.unparsed)][tab]

BrowserIsTrue == UseIsOfThisTable /\ NothingHidden
===============================================================================
