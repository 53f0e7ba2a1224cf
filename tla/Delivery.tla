------------------------------ MODULE Delivery ------------------------------
(***************************************************************************)
(* What the traces exporter promises for the spans it converts, without    *)
(* transactions, packets, applications and retries: a span it has taken is *)
(* held until it goes into a request, whatever becomes of the request; a   *)
(* span may be taken again, and held again, when its batch is retried; and *)
(* only the spans of Droppable may be given up without a request.          *)
(* NudgeExporter implements this module.                                   *)
(***************************************************************************)
CONSTANTS
    Spans,
    Droppable        \* spans whose packet may never be posted

VARIABLES
    taken,           \* spans converted at least once
    held,            \* spans in the buffer, the packet or the request
    tried            \* spans some request carried

vars == <<taken, held, tried>>

Init == taken = {} /\ held = {} /\ tried = {}

Take(s) ==
    /\ taken' = taken \cup {s}
    /\ held' = held \cup {s}
    /\ UNCHANGED tried

(* A request carries spans that are held; some copies of what has been     *)
(* tried may stay.                                                         *)
Post ==
    /\ tried \subseteq tried'
    /\ tried' \subseteq tried \cup held
    /\ held' \subseteq held
    /\ held \ held' \subseteq tried'
    /\ UNCHANGED taken

Drop ==
    /\ held' \subseteq held
    /\ held \ held' \subseteq Droppable
    /\ UNCHANGED <<taken, tried>>

Next == (\E s \in Spans : Take(s)) \/ Post \/ Drop

Spec == Init /\ [][Next]_vars
-----------------------------------------------------------------------------
(* Every span taken is held, was in a request, or may be dropped; nothing  *)
(* is held or posted that was not taken.                                   *)
Accounted ==
    /\ taken \subseteq Spans
    /\ taken \subseteq held \cup tried \cup Droppable
    /\ held \cup tried \subseteq taken
=============================================================================
