------------------------------- MODULE Geocoder -------------------------------
(***************************************************************************)
(* The offline geocoder: the database as geodb's encoder lays it out, the  *)
(* query as resolve answers it, and the search box of the GGA section that *)
(* writes the manual position of the active profile.                       *)
(*                                                                         *)
(* A text is a sequence of numbers, one for a character; FoldOf gives the  *)
(* folded characters of one.                                               *)
(***************************************************************************)
EXTENDS Integers, SequencesExt

CONSTANTS Cities,       \* CityIn: [name, ascii, country, admin1, at, pop], in file order
          Admins,       \* code <<country, admin1>> -> [abbrev, name]
          Countries,    \* iso2 -> name
          Zips,         \* ZipIn: [zip, at], in file order; five digits
          FoldOf, US, Typed,
          SCAN_CAP, RESULT_LIMIT, MaxQuery, Receivers

COMMA == 99
SPACE == 98
Digits == 50 .. 59

ASSUME GeocoderBounds == {SCAN_CAP, RESULT_LIMIT, MaxQuery} \subseteq Nat

VARIABLES query, hits, selected,     \* ViewState
          position,                  \* manual_lat, manual_lon
          receiver                   \* gnss.lat_deg zip lon_deg

gcVars == <<query, hits, selected, position, receiver>>
-------------------------------------------------------------------------------
(* Text *)

fold(s) == FlattenSeq([i \in DOMAIN s |-> FoldOf[s[i]]])
Trim(s) ==
  LET kept == {i \in DOMAIN s : s[i] # SPACE}
  IN IF kept = {} THEN <<>> ELSE SubSeq(s, Min(kept), Max(kept))
\* The parts between commas.
Split(s) ==
  LET ends == SetToSortSeq({i \in DOMAIN s : s[i] = COMMA} \cup {Len(s) + 1}, <)
  IN [k \in DOMAIN ends |-> SubSeq(s, IF k = 1 THEN 1 ELSE ends[k - 1] + 1, ends[k] - 1)]
\* Byte order.
Before(a, b) == \/ IsStrictPrefix(a, b)
                \/ \E i \in 1 .. Min({Len(a), Len(b)}) :
                     a[i] < b[i] /\ \A j \in 1 .. i - 1 : a[j] = b[j]
-------------------------------------------------------------------------------
(* format::encode *)

\* A city whose country is unknown is dropped; one whose admin1 is unknown has none.
city_records == LET kept == SelectSeq(Cities, LAMBDA c : c.country \in DOMAIN Countries)
                IN [i \in DOMAIN kept |->
                     [kept[i] EXCEPT !.admin1 =
                        IF <<kept[i].country, @>> \in DOMAIN Admins
                        THEN <<Admins[<<kept[i].country, @>>]>> ELSE <<>>]]

\* One entry for each folded spelling.
name_index ==
  SetToSortSeq({[key |-> fold(n), rec |-> r] :
                  <<n, r>> \in UNION {{<<city_records[r].name, r>>, <<city_records[r].ascii, r>>}
                                        : r \in DOMAIN city_records}},
               LAMBDA a, b : Before(a.key, b.key) \/ (a.key = b.key /\ a.rec < b.rec))

\* The first of a zip stays.
zip_table ==
  SetToSortSeq({Zips[i] : i \in {j \in DOMAIN Zips : \A k \in 1 .. j - 1 : Zips[k].zip # Zips[j].zip}},
               LAMBDA a, b : Before(a.zip, b.zip))
-------------------------------------------------------------------------------
(* GeoDb::resolve *)

\* fault: the search of an upper half skips an entry
Upper_Stuck(mid) == mid + 2
Upper(mid) == mid + 1
\* The first entry whose key is not before the one looked for.
LowerBound(n, less(_)) ==
  LET Search[lo \in 0 .. n + 1, hi \in 0 .. n] ==
        IF lo >= hi THEN lo
        ELSE LET mid == lo + (hi - lo) \div 2
             IN IF less(mid + 1) THEN Search[Upper(mid), hi] ELSE Search[lo, mid]
  IN Search[0, n] + 1

\* Records in the order of the scan, each once.
PrefixScan(prefix) ==
  LET n == Len(name_index)
      lo == LowerBound(n, LAMBDA i : Before(name_index[i].key, prefix))
      stop == Min({n + 1, lo + SCAN_CAP} \cup {i \in lo .. n : ~IsPrefix(prefix, name_index[i].key)})
      recs == [i \in 1 .. stop - lo |-> name_index[lo + i - 1].rec]
  IN FoldLeft(LAMBDA acc, r : IF Contains(acc, r) THEN acc ELSE Append(acc, r), <<>>, recs)

\* matches_qualifier
Qualifies(c, q) ==
  \/ c.admin1 # <<>> /\ (IsPrefix(q, fold(c.admin1[1].abbrev)) \/ IsPrefix(q, fold(c.admin1[1].name)))
  \/ IsPrefix(q, fold(c.country)) \/ IsPrefix(q, fold(Countries[c.country]))

CommaSpace == <<COMMA, SPACE>>
Display(c) ==
  LET region == IF c.admin1 = <<>> THEN <<>>
                ELSE IF c.country = US /\ c.admin1[1].abbrev # <<>> THEN c.admin1[1].abbrev
                ELSE c.admin1[1].name
  IN c.name \o (IF region = <<>> THEN <<>> ELSE CommaSpace \o region) \o CommaSpace \o c.country
ToHit(r) == [display |-> Display(city_records[r]), at |-> city_records[r].at]

\* fault: what follows the name is one qualifier
Qualifiers_One(q) == LET rest == SubSeq(q, Len(Split(q)[1]) + 2, Len(q))
                     IN IF rest = <<>> THEN <<>> ELSE <<fold(Trim(rest))>>
Qualifiers(q) == SelectSeq([k \in 1 .. Len(Split(q)) - 1 |-> fold(Trim(Split(q)[k + 1]))],
                           LAMBDA f : f # <<>>)

IsZip(q) == Len(q) = 5 /\ ToSet(q) \subseteq Digits
ResolveZip(z) ==
  LET lo == LowerBound(Len(zip_table), LAMBDA i : Before(zip_table[i].zip, z))
  IN IF lo <= Len(zip_table) /\ zip_table[lo].zip = z
     THEN <<[display |-> z, at |-> zip_table[lo].at]>> ELSE <<>>

Truncate(s, n) == SubSeq(s, 1, Min({n, Len(s)}))
Resolve(text, limit) ==
  LET q == Trim(text)
      prefix == fold(Trim(Split(q)[1]))
      found == SelectSeq(PrefixScan(prefix),
                         LAMBDA r : \A i \in DOMAIN Qualifiers(q) : Qualifies(city_records[r], Qualifiers(q)[i]))
      ranked == SortSeq(found, LAMBDA a, b : \/ city_records[a].pop > city_records[b].pop
                                             \/ city_records[a].pop = city_records[b].pop /\ a < b)
  IN IF IsZip(q) THEN Truncate(ResolveZip(q), limit)
     ELSE IF prefix = <<>> THEN <<>>
     ELSE [i \in DOMAIN Truncate(ranked, limit) |-> ToHit(ranked[i])]
-------------------------------------------------------------------------------
(* The search box: one frame an action *)

\* The query is resolved in the frame that changes it.
Ask(text) == /\ query' = text /\ hits' = Resolve(text, RESULT_LIMIT) /\ selected' = 0
             /\ UNCHANGED <<position, receiver>>
Type == \E c \in Typed : Len(query) < MaxQuery /\ Ask(Append(query, c))
TypeZip == \E i \in DOMAIN Zips : Ask(Zips[i].zip)
EraseQuery == query # <<>> /\ Ask(<<>>)
\* The user types a label he was shown.
RetypeLabel == \E i \in DOMAIN hits : Ask(hits[i].display)

\* step_selection: 0-based, no wrap.
Arrow == /\ hits # <<>>
         /\ selected' \in {Min({selected + 1, Len(hits) - 1}), Max({selected - 1, 0})}
         /\ UNCHANGED <<query, hits, position, receiver>>

\* hit_coords, clamped
Picked(i) == hits[Min({i, Len(hits) - 1}) + 1].at
Enter == /\ hits # <<>> /\ position' = Picked(selected)
         /\ UNCHANGED <<query, hits, selected, receiver>>
Click == \E i \in DOMAIN hits :
  /\ selected' = i - 1 /\ position' = Picked(i - 1)
  /\ UNCHANGED <<query, hits, receiver>>

UseReceiver == receiver # <<>> /\ position' = receiver[1] /\ UNCHANGED <<query, hits, selected, receiver>>
\* The receiver's readouts: a position comes, and is kept.
ReceiverFix == \E p \in Receivers : receiver' = <<p>> /\ UNCHANGED <<query, hits, selected, position>>

GeocoderInit == query = <<>> /\ hits = <<>> /\ selected = 0 /\ position = <<0, 0>> /\ receiver = <<>>
GeocoderNext == \/ Type \/ TypeZip \/ EraseQuery \/ RetypeLabel
                \/ Arrow \/ Enter \/ Click \/ UseReceiver \/ ReceiverFix
GeocoderSpec == GeocoderInit /\ [][GeocoderNext]_gcVars
-------------------------------------------------------------------------------
(* Properties *)

\* What a query means, with no index and no search: every city one of whose
\* spellings starts with the name and that each qualifier fits, the most
\* populous first.
Matching(q) ==
  {r \in DOMAIN city_records :
     /\ \E n \in {city_records[r].name, city_records[r].ascii} : IsPrefix(fold(Trim(Split(q)[1])), fold(n))
     /\ \A k \in 2 .. Len(Split(q)) : LET f == fold(Trim(Split(q)[k]))
                                      IN f # <<>> => Qualifies(city_records[r], f)}

\* lib.rs: "City hits are sorted by population descending and deduplicated",
\* for every name of fewer spellings than the scan's cap; a zip is found or not.
ResolveIsExact ==
  LET q == Trim(query)
      entries == {i \in DOMAIN name_index : IsPrefix(fold(Trim(Split(q)[1])), name_index[i].key)}
      at(h) == {r \in DOMAIN city_records : ToHit(r) = h}
  IN IF IsZip(q)
     THEN hits = LET z == SelectSeq(Zips, LAMBDA y : y.zip = q)
                 IN IF z = <<>> THEN <<>> ELSE <<[display |-> q, at |-> z[1].at]>>
     ELSE IF fold(Trim(Split(q)[1])) = <<>> THEN hits = <<>>
     ELSE Cardinality(entries) <= SCAN_CAP =>
       hits = LET s == SetToSortSeq(Matching(q), LAMBDA a, b :
                         \/ city_records[a].pop > city_records[b].pop
                         \/ city_records[a].pop = city_records[b].pop /\ a < b)
              IN [i \in 1 .. Min({RESULT_LIMIT, Len(s)}) |-> ToHit(s[i])]

\* resolve: "lets a displayed hit label round-trip through the search box".  A
\* label typed again finds its city, and Enter applies the row highlighted.
LabelsRoundTrip ==
  /\ \A i \in DOMAIN hits : Contains(Resolve(hits[i].display, Len(Cities)), hits[i])
  /\ hits # <<>> => selected < Len(hits)

SearchIsTrue == ResolveIsExact /\ LabelsRoundTrip
===============================================================================
