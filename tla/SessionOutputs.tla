---------------------------- MODULE SessionOutputs ----------------------------
(***************************************************************************)
(* What an NtripSession promises the worker that drives it: for each entry *)
(* point, the outputs a call may return and the stage it leaves behind.    *)
(* NtripSession implements it; NtripWorker relies on nothing more.         *)
(***************************************************************************)
EXTENDS Sequences

VARIABLES kind,     \* what was asked for: "table", "mount" or "raw"
          stage,    \* "open" until a stream begins, "streaming", "done"
          out       \* outputs of the latest call

Reasons == {"Unauthorized", "MountpointNotFound", "UnknownResponse",
            "FirstResponseTimeout", "SourcetableTimeout", "StreamSilence",
            "StreamCorrupt", "RemoteClosed", "Cancelled"}
Outputs == Reasons \cup {"GgaDue", "Corrections", "Sourcetable"}

Answer(to, outputs) == [to |-> to, out |-> outputs]
Nothing(at) == {Answer(at, <<>>)}
Closes(reasons) == {Answer("done", <<r>>) : r \in reasons}

\* A body that breaks off or ends may deliver what was decoded before.
StreamBytes == {Answer("streaming", <<>>), Answer("streaming", <<"Corrections">>)}
               \cup Closes({"StreamCorrupt", "RemoteClosed"})
               \cup {Answer("done", <<"Corrections", r>>) :
                       r \in {"StreamCorrupt", "RemoteClosed"}}
Product(after) == {Answer("done", <<"Sourcetable">> \o after)}

FirstStage(k) == IF k = "raw" THEN "streaming" ELSE "open"

Bytes(k, at) ==
  CASE at = "streaming" -> StreamBytes
    [] at = "open" ->
         Nothing("open") \cup Closes({"Unauthorized", "UnknownResponse", "StreamCorrupt"})
         \cup IF k = "table" THEN Product(<<>>)
              ELSE Closes({"MountpointNotFound"}) \cup StreamBytes
    [] OTHER -> Nothing("done")

Tick(k, at) ==
  Nothing(at) \cup
  CASE at = "streaming" -> Closes({"StreamSilence"}) \cup
                           (IF k = "raw" THEN {} ELSE {Answer(at, <<"GgaDue">>)})
    [] at = "open" -> Closes({"FirstResponseTimeout", "SourcetableTimeout"})
    [] OTHER -> {}

RemoteClose(k, at) ==
  CASE at = "streaming" -> Closes({"RemoteClosed"})
    [] at = "open" -> Closes({"UnknownResponse"})
                      \cup IF k = "table" THEN Product(<<"RemoteClosed">>)
                           ELSE Closes({"MountpointNotFound"})
    [] OTHER -> Nothing("done")

Cancelling(at) == IF at = "done" THEN Nothing(at) ELSE Closes({"Cancelled"})

Init == /\ kind \in {"table", "mount", "raw"}
        /\ stage = FirstStage(kind) /\ out = <<>>

Next == /\ \E a \in Bytes(kind, stage) \cup Tick(kind, stage) \cup Nothing(stage)
                    \cup RemoteClose(kind, stage) \cup Cancelling(stage) :
             stage' = a.to /\ out' = a.out
        /\ kind' = kind

Spec == Init /\ [][Next]_<<kind, stage, out>>
===============================================================================
