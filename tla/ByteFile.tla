------------------------------ MODULE ByteFile ------------------------------
(***************************************************************************)
(* What a FITS file is to the routines above its input/output buffers: a   *)
(* row of cells, and one call at a time that writes, reads or cuts it      *)
(* where the caller said.  A write may take several steps, each of which   *)
(* writes the cells that come next.  Cells that were never written, or     *)
(* were cut off, read as fill.  Once the system has refused something      *)
(* nothing more is promised.                                               *)
(***************************************************************************)
EXTENDS Integers, Sequences

CONSTANTS Cells,        \* the positions, 0 to some number
          Data,         \* what a cell holds
          Fill          \* what a cell holds that was not written

VARIABLES content,      \* the cells
          call,         \* the call going on: the cells it is left with
          answer,       \* what the last read returned
          failed        \* something was refused

vars == <<content, call, answer, failed>>

Idle == [op |-> "none", at |-> 0, to |-> 0, value |-> Fill]

Init == content \in [Cells -> Data] /\ call = Idle /\ answer = <<>> /\ failed = FALSE

(* A call says which cells it writes or reads, from at up to but not       *)
(* including to, or where it cuts: before a cell, or behind them all.      *)
Begin ==
    /\ call = Idle
    /\ \/ \E p, l \in Cells, v \in Data :
             /\ p <= l
             /\ \/ call' = [op |-> "write", at |-> p, to |-> l + 1, value |-> v]
                \/ call' = [op |-> "read", at |-> p, to |-> l + 1, value |-> Fill]
       \/ \E p \in Cells \cup {l + 1 : l \in Cells} :
             call' = [op |-> "cut", at |-> p, to |-> p, value |-> Fill]
    /\ answer' = <<>>
    /\ UNCHANGED <<content, failed>>

(* The next cells, up to q, take the value.                                *)
Write ==
    /\ call.op = "write"
    /\ \E q \in call.at + 1..call.to :
          /\ content' = [c \in Cells |-> IF call.at <= c /\ c < q THEN call.value ELSE content[c]]
          /\ call' = IF q = call.to THEN Idle ELSE [call EXCEPT !.at = q]
    /\ UNCHANGED <<answer, failed>>

(* The cells asked for are returned, or nothing: the read failed.          *)
Read ==
    /\ call.op = "read"
    /\ answer' \in {<<>>, [i \in 1..call.to - call.at |-> content[call.at + i - 1]]}
    /\ call' = Idle
    /\ UNCHANGED <<content, failed>>

Cut ==
    /\ call.op = "cut"
    /\ content' = [c \in Cells |-> IF c < call.at THEN content[c] ELSE Fill]
    /\ call' = Idle
    /\ UNCHANGED <<answer, failed>>

(* The answer is no longer kept.                                           *)
Forget == call = Idle /\ answer' = <<>> /\ UNCHANGED <<content, call, failed>>

Refuse == failed' = TRUE

Next == (~failed /\ (Begin \/ Write \/ Read \/ Cut \/ Forget)) \/ Refuse

Spec == Init /\ [][Next]_vars
=============================================================================
