---------------------------- MODULE DurableNames ----------------------------
(***************************************************************************)
(* What the namespace of ZenFS promises to the one who calls it and may    *)
(* crash at any moment: a call changes the durable namespace in one step,  *)
(* or in two when it has to remove a file that is in the way first; a call *)
(* that is cut off by a crash, or fails, leaves it as it is behind one of  *)
(* those steps, and nothing else ever changes it.                          *)
(*                                                                         *)
(* lost tells that the promise does not hold for the moment: the cases are *)
(* those where module MetaLog gives up trusted.                            *)
(***************************************************************************)
EXTENDS Integers, FiniteSets

CONSTANTS Names, Ids, NoFile

VARIABLES
  names,            \* the namespace that a mount would find
  call,             \* the running call
  stage,            \* "idle", or what the call has still to do
  lost

vars == <<names, call, stage, lost>>

NoCall == [name |-> "none", src |-> NoFile, dst |-> NoFile, id |-> NoFile]
NoNames == [n \in Names |-> NoFile]
InUse(id) == \E n \in Names : names[n] = id

\* A new file gets an ID no other has.  Rename and create replace, link does not.
Legal(c) ==
  \/ c.name = "open" /\ c.src = c.dst /\ ~InUse(c.id)
  \/ c.name = "delete" /\ c.src = c.dst /\ c.id = names[c.dst] /\ c.id # NoFile
  \/ c.name = "rename" /\ c.id = names[c.src] /\ c.id # NoFile
  \/ c.name = "link" /\ c.id = names[c.src] /\ c.id # NoFile /\ names[c.dst] = NoFile

Calls == [name : {"open", "delete", "rename", "link"}, src : Names, dst : Names, id : Ids]

Call ==
  /\ ~lost /\ stage = "idle"
  /\ call' \in Calls /\ Legal(call')
  /\ stage' = IF names[call'.dst] # NoFile THEN "unlink" ELSE "main"
  /\ UNCHANGED <<names, lost>>

Unlink ==
  /\ stage = "unlink"
  /\ names' = [names EXCEPT ![call.dst] = NoFile]
  /\ stage' = IF call.name = "delete" THEN "done" ELSE "main"
  /\ UNCHANGED <<call, lost>>

Enter ==
  /\ stage = "main" /\ names[call.dst] = NoFile
  /\ names' = IF call.name = "rename"
              THEN [names EXCEPT ![call.src] = NoFile, ![call.dst] = call.id]
              ELSE [names EXCEPT ![call.dst] = call.id]
  /\ stage' = "done"
  /\ UNCHANGED <<call, lost>>

\* The call returns, fails, or a crash ends it
End ==
  /\ stage # "idle"
  /\ stage' = "idle" /\ call' = NoCall
  /\ UNCHANGED <<names, lost>>

Lose ==
  /\ lost' = TRUE
  /\ names' = NoNames /\ stage' = "idle" /\ call' = NoCall

\* A mount finds some namespace, and the promise holds for that one
Regain ==
  /\ lost /\ lost' = FALSE
  /\ names' \in [Names -> Ids \cup {NoFile}]
  /\ UNCHANGED <<call, stage>>

Init == names = NoNames /\ call = NoCall /\ stage = "idle" /\ lost = FALSE

Next == Call \/ Unlink \/ Enter \/ End \/ Lose \/ Regain

Spec == Init /\ [][Next]_vars
=============================================================================
