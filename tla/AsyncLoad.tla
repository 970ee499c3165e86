----------------------------- MODULE AsyncLoad -----------------------------
(***************************************************************************)
(* What a thread that loads a file into a FileBuffer promises to the       *)
(* threads that read the buffer meanwhile (request_data in buffer.cpp).    *)
(* What is available grows until the load ends.  It ends once: with        *)
(* FILEBUFFER_FLAG_LOADED, or without, in which case the buffer never       *)
(* becomes loaded.  After that nothing changes.  The error flag is set     *)
(* while the load runs and is never taken back; a loaded buffer has none.  *)
(* A load that does not use a thread ends where it begins.                 *)
(***************************************************************************)
EXTENDS Naturals

VARIABLES
  state,        \* how far the load is
  avail,        \* m_avaible_size
  error         \* FILEBUFFER_FLAG_ERROR_BIT

vars == <<state, avail, error>>

Init == state = "idle" /\ avail = 0 /\ error = FALSE

Begin ==
  /\ state = "idle"
  /\ state' = "loading"
  /\ UNCHANGED <<avail, error>>

Grow == avail' \in Nat /\ avail' >= avail

Publish ==
  /\ state = "loading"
  /\ Grow
  /\ UNCHANGED <<state, error>>

Raise ==
  /\ state = "loading"
  /\ error' = TRUE
  /\ UNCHANGED <<state, avail>>

Finish ==
  /\ state \in {"idle", "loading"} /\ ~error
  /\ Grow
  /\ state' = "loaded"
  /\ UNCHANGED error

GiveUp ==
  /\ state \in {"idle", "loading"}
  /\ Grow
  /\ state' = "failed"
  /\ UNCHANGED error

Next == Begin \/ Publish \/ Raise \/ Finish \/ GiveUp

Spec == Init /\ [][Next]_vars
=============================================================================
