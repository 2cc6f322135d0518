----------------------------- MODULE PaperLedger -----------------------------
(***************************************************************************)
(* What paper trading promises: a book of trades and its audit trail.  A   *)
(* trade is booked once for its signal, together with its audit entry, and *)
(* neither is ever changed or removed.  Replays, attempts, rejections,     *)
(* conflicts and crashes are not seen here.                                *)
(***************************************************************************)

CONSTANT Signals    \* signals that may be traded

VARIABLES
    book,     \* the trades, as [id, signal, net, reason]
    audit     \* the entries about them

Init == book = {} /\ audit = {}

Open ==
    \E row \in book' \ book :
        /\ row.signal \in Signals
        /\ \A other \in book : other.signal # row.signal /\ other.id # row.id
        /\ book' = book \cup {row}
        /\ audit' = audit \cup {row}

Spec == Init /\ [][Open]_<<book, audit>>
=============================================================================
