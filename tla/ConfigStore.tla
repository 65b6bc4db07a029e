---------------------------- MODULE ConfigStore ----------------------------
(***************************************************************************)
(* What saving the configuration promises a reader that boots later: the   *)
(* configuration is always one that somebody saved, or none.  A save is    *)
(* not atomic: while it runs the configuration may be lost, and a crash    *)
(* leaves what the save has done so far.  Tear and TornCrash are no steps  *)
(* of StoreNext: whoever may tear a configuration says in which step.      *)
(***************************************************************************)
CONSTANTS Writers, Nets, NoNet, None,
          Part,    \* a part of the credentials of one network
          Mixed    \* credentials of no network

VARIABLES cfg,     \* the configuration a boot would find
          saving   \* what each writer is saving, or None

Pending == {saving[w] : w \in Writers} \ {None}

StoreInit == cfg \in Nets \cup {NoNet} /\ saving = [w \in Writers |-> None]

Begin(w, v) == saving[w] = None /\ saving' = [saving EXCEPT ![w] = v] /\ UNCHANGED cfg

Lose == Pending # {} /\ cfg' = NoNet /\ UNCHANGED saving

Commit(w) == saving[w] # None /\ cfg' = saving[w] /\ UNCHANGED saving

End(w) == saving[w] # None /\ saving' = [saving EXCEPT ![w] = None] /\ UNCHANGED cfg

Crash == /\ saving' = [w \in Writers |-> None]
         /\ cfg' \in {cfg} \cup (IF Pending = {} THEN {} ELSE Pending \cup {NoNet})

StoreNext == \/ \E w \in Writers : Commit(w) \/ End(w) \/ \E v \in Nets \cup {NoNet} : Begin(w, v)
             \/ Lose \/ Crash

(* A network's save has left a part of it. *)
Tear == Pending \cap Nets # {} /\ cfg' = Part /\ UNCHANGED saving

(* A crash within a command of a save. *)
TornCrash == /\ Pending # {} /\ saving' = [w \in Writers |-> None]
             /\ cfg' \in {Part, Mixed}
=============================================================================
