----------------------------- MODULE ErrorStack -----------------------------
(***************************************************************************)
(* What the error messages of CFITSIO promise their users, without the     *)
(* buffers they are kept in: a bounded sequence of messages and marks,     *)
(* newest last.  A message put on a full stack drops the oldest; messages  *)
(* are read oldest first; what follows a mark can be erased with it.       *)
(***************************************************************************)
EXTENDS Naturals, Sequences

CONSTANTS Texts,        \* the messages, in pieces of at most 80 characters
          Mark,         \* the marker ffpmrk writes
          NoText,       \* the empty message
          errmsgsiz     \* how many messages fit

VARIABLES stack,        \* messages and marks, oldest first
          answer        \* what the last read returned

Newest(s) == LET n == Len(s) IN IF n > errmsgsiz THEN SubSeq(s, n - errmsgsiz + 1, n) ELSE s

Init == stack = <<>> /\ answer = NoText

Put(m) == stack' = Newest(Append(stack, m)) /\ UNCHANGED answer

(* The oldest text and the marks before it leave the stack.                *)
Read ==
    \/ \E i \in 1..Len(stack) :
          /\ stack[i] # Mark
          /\ \A j \in 1..i - 1 : stack[j] = Mark
          /\ answer' = stack[i]
          /\ stack' = SubSeq(stack, i + 1, Len(stack))
    \/ /\ \A j \in 1..Len(stack) : stack[j] = Mark
       /\ answer' = NoText
       /\ stack' = <<>>

(* The newest mark and all that follows it, or everything, is erased.      *)
Undo ==
    /\ \/ \E i \in 1..Len(stack) :
             /\ stack[i] = Mark
             /\ \A j \in i + 1..Len(stack) : stack[j] # Mark
             /\ stack' = SubSeq(stack, 1, i - 1)
       \/ (\A j \in 1..Len(stack) : stack[j] # Mark) /\ stack' = <<>>
    /\ UNCHANGED answer

Clear == stack' = <<>> /\ UNCHANGED answer

Next == (\E m \in Texts \cup {Mark} : Put(m)) \/ Read \/ Undo \/ Clear

Spec == Init /\ [][Next]_<<stack, answer>>
=============================================================================
