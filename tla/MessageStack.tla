---------------------------- MODULE MessageStack ----------------------------
(***************************************************************************)
(* The error messages of CFITSIO (fitscore.c, ffxmsg and its wrappers): a  *)
(* static array errbuff of message buffers, an empty one being free, and   *)
(* an array txtbuff of pointers to the buffers in use, oldest first.  A    *)
(* routine puts a message, reads the oldest, or marks the stack before a   *)
(* trial whose messages it may erase.  ffrprt, which the converter calls   *)
(* when CFITSIO returns a status, reads until nothing is left.             *)
(*                                                                         *)
(* The trials are those of modkey.c and imcompress.c: never nested, and    *)
(* one that succeeds leaves its mark on the stack.                         *)
(***************************************************************************)
EXTENDS Naturals, Sequences

CONSTANTS Texts,        \* the pieces of at most 80 characters of messages
          Mark,         \* ESMARKER
          NoText,       \* the empty string
          Garbled,      \* two texts in one buffer
          errmsgsiz,    \* buffers, 25 in the code
          MaxPieces     \* bound on the pieces of one message

ASSUME SizeAssumption == errmsgsiz \in Nat \ {0} /\ MaxPieces \in Nat
ASSUME TextAssumption ==
    /\ Mark \notin Texts /\ NoText \notin Texts /\ Garbled \notin Texts
    /\ Mark # NoText /\ Mark # Garbled /\ NoText # Garbled

VARIABLES errbuff,      \* the buffers
          txtbuff,      \* the buffer of each message, 0 a null pointer
          nummsg,       \* messages on the stack
          answer,       \* what the last ffgmsg returned
          rest,         \* pieces of a message ffpmsg has still to store
          reporting,    \* ffrprt is printing the messages
          trial         \* what the trial going on should leave; <<NoText>> when none

vars == <<errbuff, txtbuff, nummsg, answer, rest, reporting, trial>>

Buffers == 1..errmsgsiz
Slots == 0..errmsgsiz - 1
Contents == Texts \cup {Mark, NoText, Garbled}

(* The messages on the stack, oldest first.                                *)
Stack == [i \in 1..nummsg |-> errbuff[txtbuff[i - 1]]]

Idle == rest = <<>> /\ ~reporting
NoTrial == <<NoText>>

Init ==
    /\ errbuff = [b \in Buffers |-> NoText]
    /\ txtbuff = [i \in Slots |-> 0]
    /\ nummsg = 0
    /\ answer = NoText
    /\ rest = <<>>
    /\ reporting = FALSE
    /\ trial = NoTrial

-----------------------------------------------------------------------------
(* strncat appends to what the buffer holds.                               *)
Into(old, m) == IF old = NoText THEN m ELSE Garbled

Overrun == IF nummsg = errmsgsiz THEN 1 ELSE 0

Free == {b \in Buffers : errbuff[b] = NoText}

(* The oldest d messages leave: a trial can no longer leave them.          *)
Lost(d) == IF trial = NoTrial THEN trial ELSE SubSeq(trial, d + 1, Len(trial))

(* With every slot in use the oldest buffer is reused.                     *)
Recycle(m) ==
    /\ nummsg = errmsgsiz
    /\ errbuff' = [errbuff EXCEPT ![txtbuff[0]] = m]
    /\ txtbuff' = [i \in Slots |-> txtbuff[IF i = errmsgsiz - 1 THEN 0 ELSE i + 1]]
    /\ UNCHANGED nummsg

(* Else the first free buffer is taken.                                    *)
Take(m) ==
    /\ nummsg < errmsgsiz
    /\ \E b \in IF Free = {} THEN {txtbuff[nummsg]} ELSE Free :
          /\ \A c \in Free : b <= c
          /\ errbuff' = [errbuff EXCEPT ![b] = IF m = Mark THEN Mark ELSE Into(@, m)]
          /\ txtbuff' = [txtbuff EXCEPT ![nummsg] = b]
    /\ nummsg' = nummsg + 1

(* Mutants of Push: a full stack grows; the pointers are not shifted when  *)
(* the oldest buffer is reused.                                            *)
PushPastEnd(m) ==
    \/ nummsg = errmsgsiz /\ nummsg' = nummsg + 1 /\ UNCHANGED <<errbuff, txtbuff>>
    \/ Take(m)
PushInPlace(m) ==
    \/ /\ nummsg = errmsgsiz
       /\ errbuff' = [errbuff EXCEPT ![txtbuff[0]] = m]
       /\ UNCHANGED <<txtbuff, nummsg>>
    \/ Take(m)

(* A piece or a mark is stored.                                            *)
Push(m) == Recycle(m) \/ Take(m)

(* Mutant: the messages are dropped but their buffers keep the text.       *)
EraseKeepsText(k) == UNCHANGED errbuff

(* The buffers of messages from slot k on are cleared.                     *)
Erase(k) ==
    errbuff' = [b \in Buffers |-> IF \E i \in k..nummsg - 1 : txtbuff[i] = b
                                  THEN NoText ELSE errbuff[b]]

(* ffpmsg: the pieces of the message, one at a time.                       *)
ffpmsg(pieces) ==
    /\ Idle /\ pieces # <<>>
    /\ Push(Head(pieces))
    /\ rest' = Tail(pieces)
    /\ trial' = Lost(Overrun)
    /\ UNCHANGED <<answer, reporting>>

NextPiece ==
    /\ rest # <<>>
    /\ Push(Head(rest))
    /\ rest' = Tail(rest)
    /\ trial' = Lost(Overrun)
    /\ UNCHANGED <<answer, reporting>>

(* ffpmrk opens a trial.                                                   *)
ffpmrk ==
    /\ Idle /\ trial = NoTrial
    /\ Push(Mark)
    /\ trial' = SubSeq(Stack, Overrun + 1, nummsg)
    /\ UNCHANGED <<answer, rest, reporting>>

(* Mutant: the mark itself is left on the stack.                           *)
ffcmrkKeepsMark ==
    /\ Idle /\ trial # NoTrial
    /\ \E k \in 0..nummsg :
          /\ \A i \in k..nummsg - 1 : errbuff[txtbuff[i]] # Mark
          /\ k = 0 \/ errbuff[txtbuff[k - 1]] = Mark
          /\ Erase(k)
          /\ nummsg' = k
    /\ trial' = NoTrial
    /\ UNCHANGED <<txtbuff, answer, rest, reporting>>

(* ffcmrk: the trial failed as expected, its messages are erased back to   *)
(* the newest mark, all of them when there is none.                        *)
ffcmrk ==
    /\ Idle /\ trial # NoTrial
    /\ \E k \in 0..nummsg :
          /\ \A i \in k + 1..nummsg - 1 : errbuff[txtbuff[i]] # Mark
          /\ k = 0 \/ (k < nummsg /\ errbuff[txtbuff[k]] = Mark)
          /\ Erase(k)
          /\ nummsg' = k
    /\ trial' = NoTrial
    /\ UNCHANGED <<txtbuff, answer, rest, reporting>>

(* The trial succeeded: its mark stays.                                    *)
EndTrial ==
    /\ Idle /\ trial # NoTrial
    /\ trial' = NoTrial
    /\ UNCHANGED <<errbuff, txtbuff, nummsg, answer, rest, reporting>>

(* ffcmsg.                                                                 *)
ffcmsg ==
    /\ Idle
    /\ Erase(0)
    /\ nummsg' = 0
    /\ trial' = Lost(nummsg)
    /\ UNCHANGED <<txtbuff, answer, rest, reporting>>

(* The d oldest messages leave: the pointers left move down and the slots *)
(* behind them keep the last pointer.                                      *)
Pop(d) ==
    /\ errbuff' = [b \in Buffers |-> IF \E i \in 0..d - 1 : txtbuff[i] = b
                                     THEN NoText ELSE errbuff[b]]
    /\ txtbuff' = [i \in Slots |-> IF i >= nummsg THEN txtbuff[i]
                                   ELSE IF i + d < nummsg THEN txtbuff[i + d]
                                   ELSE txtbuff[nummsg - 1]]
    /\ nummsg' = nummsg - d
    /\ trial' = Lost(d)

(* Mutant: the reporting loop does not look at what it was given.          *)
ffgmsgUnread ==
    /\ rest = <<>>
    /\ \E d \in 0..nummsg :
          /\ \A i \in 0..d - 2 : errbuff[txtbuff[i]] = Mark
          /\ d = nummsg \/ (d > 0 /\ errbuff[txtbuff[d - 1]] # Mark)
          /\ answer' = IF d > 0 /\ errbuff[txtbuff[d - 1]] # Mark
                        THEN errbuff[txtbuff[d - 1]] ELSE NoText
          /\ Pop(d)
    /\ UNCHANGED <<rest, reporting>>

(* ffgmsg: the marks before the oldest text, and it, leave.                *)
ffgmsg ==
    /\ rest = <<>>
    /\ \E d \in 0..nummsg :
          /\ \A i \in 0..d - 2 : errbuff[txtbuff[i]] = Mark
          /\ \/ /\ d > 0 /\ errbuff[txtbuff[d - 1]] # Mark
                /\ answer' = errbuff[txtbuff[d - 1]]
             \/ /\ d = nummsg /\ (d > 0 => errbuff[txtbuff[d - 1]] = Mark)
                /\ answer' = NoText
          /\ Pop(d)
    /\ reporting' = (reporting /\ answer' # NoText)
    /\ UNCHANGED rest

(* ffrprt: print messages until ffgmsg returns none.                       *)
ffrprt ==
    /\ Idle
    /\ reporting' = TRUE
    /\ UNCHANGED <<errbuff, txtbuff, nummsg, answer, rest, trial>>

Messages == UNION {[1..n -> Texts] : n \in 1..MaxPieces}

Next ==
    \/ \E pieces \in Messages : ffpmsg(pieces)
    \/ NextPiece
    \/ ffpmrk \/ ffcmrk \/ EndTrial
    \/ ffcmsg \/ ffgmsg \/ ffrprt

(* A routine that has begun ends: nothing in them waits for anybody.       *)
Spec == Init /\ [][Next]_vars /\ WF_vars(NextPiece) /\ WF_vars(reporting /\ ffgmsg)

-----------------------------------------------------------------------------
(* Every variable is of its type.                                          *)
TypeOK ==
    /\ errbuff \in [Buffers -> Contents]
    /\ txtbuff \in [Slots -> Buffers \cup {0}]
    /\ nummsg \in 0..errmsgsiz
    /\ answer \in Texts \cup {NoText}
    /\ rest \in Seq(Texts)
    /\ reporting \in BOOLEAN
    /\ trial \in Seq(Contents)

Used == {txtbuff[i] : i \in 0..nummsg - 1}

(* Two messages never share a buffer, a buffer is free exactly when no     *)
(* message is in it, and no text is appended to another: what the pointer  *)
(* shuffling of ffxmsg keeps, whatever was put, read, erased and recycled. *)
BuffersOwned ==
    /\ Used \subseteq Buffers
    /\ \A i, j \in 0..nummsg - 1 : txtbuff[i] = txtbuff[j] => i = j
    /\ \A b \in Buffers : errbuff[b] # NoText <=> b \in Used
    /\ \A b \in Buffers : errbuff[b] # Garbled

(* Erasing a trial's messages leaves exactly what was on the stack before  *)
(* it and has not been read or dropped from the full stack meanwhile, also *)
(* when marks of trials that succeeded lie there and when the trial's own  *)
(* mark was dropped or read over.                                          *)
TrialLeavesOlder == [][ffcmrk => Stack' = trial]_vars

(* The buffers and pointers implement the bounded sequence.                *)
ES == INSTANCE ErrorStack WITH stack <- Stack
ImplementsErrorStack == ES!Spec

(* A report ends: the messages run out.                                    *)
ReportEnds == reporting ~> ~reporting
=============================================================================
