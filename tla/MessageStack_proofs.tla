------------------------ MODULE MessageStack_proofs ------------------------
(***************************************************************************)
(* For any number of buffers and any messages, the pointers of the error   *)
(* stack never share a buffer and no text is lost to another.              *)
(***************************************************************************)
EXTENDS MessageStack, FiniteSetTheorems, SequenceTheorems, TLAPS

USE SizeAssumption, TextAssumption

(* Typing without the ghost trial, and the ownership of the buffers.       *)
PartType ==
    /\ errbuff \in [Buffers -> Contents]
    /\ txtbuff \in [Slots -> Buffers \cup {0}]
    /\ nummsg \in 0..errmsgsiz

Inv == TypeOK /\ BuffersOwned

-----------------------------------------------------------------------------
(* Fewer messages than buffers leave a buffer free.                        *)
LEMMA SomeBufferIsFree ==
    ASSUME PartType, BuffersOwned, nummsg < errmsgsiz
    PROVE  Free # {}
<1> DEFINE I == 0..nummsg - 1
           f == [i \in I |-> txtbuff[i]]
<1>1. IsFiniteSet(I) /\ Cardinality(I) = nummsg
  BY FS_Interval DEF PartType
<1>2. IsFiniteSet(Buffers) /\ Cardinality(Buffers) = errmsgsiz
  BY FS_Interval DEF Buffers
<1>3. f \in Surjection(I, Used)
  BY DEF Surjection, Used, Range
<1>4. Cardinality(Used) <= nummsg
  BY <1>1, <1>3, FS_Surjection
<1>5. SUFFICES ASSUME Free = {} PROVE FALSE
  OBVIOUS
<1>6. Used = Buffers
  BY <1>5 DEF Free, BuffersOwned
<1> QED
  BY <1>2, <1>4, <1>6 DEF PartType

-----------------------------------------------------------------------------
(* Storing a piece or a mark keeps the ownership: a recycled buffer only   *)
(* changes its place in the order, a free one belongs to nobody.           *)
LEMMA PushKeeps ==
    ASSUME PartType, BuffersOwned, NEW m \in Texts \cup {Mark}, Push(m)
    PROVE  PartType' /\ BuffersOwned'
<1>1. CASE nummsg = errmsgsiz /\ nummsg' = nummsg
           /\ errbuff' = [errbuff EXCEPT ![txtbuff[0]] = m]
           /\ txtbuff' = [i \in Slots |-> txtbuff[IF i = errmsgsiz - 1 THEN 0 ELSE i + 1]]
  <2> DEFINE next(i) == IF i = errmsgsiz - 1 THEN 0 ELSE i + 1
  <2>0. \A i \in Slots : next(i) \in Slots /\ txtbuff'[i] = txtbuff[next(i)]
    BY <1>1 DEF Slots
  <2>1. PartType'
    BY <1>1, <2>0 DEF PartType, Contents
  <2>2. Used' = Used
    <3>1. Used' = {txtbuff'[i] : i \in Slots} /\ Used = {txtbuff[i] : i \in Slots}
      BY <1>1 DEF Used, Slots
    <3>2. \A i \in Slots : \E j \in Slots : next(j) = i
      <4> SUFFICES ASSUME NEW i \in Slots PROVE \E j \in Slots : next(j) = i
        OBVIOUS
      <4>1. CASE i = 0
        BY <4>1, next(errmsgsiz - 1) = 0, errmsgsiz - 1 \in Slots DEF Slots
      <4>2. CASE i # 0
        BY <4>2, next(i - 1) = i, i - 1 \in Slots DEF Slots
      <4> QED
        BY <4>1, <4>2
    <3> HIDE DEF next
    <3> QED
      BY <3>1, <3>2, <2>0
  <2>3. \A i, j \in Slots : txtbuff[i] = txtbuff[j] => i = j
    BY <1>1 DEF BuffersOwned, Slots
  <2>4. \A i, j \in 0..nummsg' - 1 : txtbuff'[i] = txtbuff'[j] => i = j
    BY <1>1, <2>0, <2>3 DEF Slots
  <2>5. txtbuff[0] \in Used
    BY <1>1 DEF Used
  <2>6. \A b \in Buffers : errbuff'[b] = IF b = txtbuff[0] THEN m ELSE errbuff[b]
    BY <1>1 DEF PartType
  <2> QED
    BY <2>1, <2>2, <2>4, <2>5, <2>6 DEF BuffersOwned
<1>2. ASSUME nummsg < errmsgsiz, nummsg' = nummsg + 1,
             NEW b \in IF Free = {} THEN {txtbuff[nummsg]} ELSE Free,
             errbuff' = [errbuff EXCEPT ![b] = IF m = Mark THEN Mark ELSE Into(@, m)],
             txtbuff' = [txtbuff EXCEPT ![nummsg] = b]
      PROVE  PartType' /\ BuffersOwned'
  <2>1. b \in Buffers /\ errbuff[b] = NoText /\ b \notin Used
    BY <1>2, SomeBufferIsFree DEF Free, BuffersOwned
  <2>2. nummsg \in Slots
    BY <1>2 DEF PartType, Slots
  <2>3. \A c \in Buffers : errbuff'[c] = IF c = b THEN m ELSE errbuff[c]
    BY <1>2, <2>1 DEF PartType, Into
  <2>4. \A i \in Slots : txtbuff'[i] = IF i = nummsg THEN b ELSE txtbuff[i]
    BY <1>2, <2>2 DEF PartType
  <2>5. PartType'
    BY <1>2, <2>1, <2>2 DEF PartType, Contents, Into
  <2>6. \A i \in 0..nummsg - 1 : i \in Slots /\ i # nummsg
    BY DEF PartType, Slots
  <2>7. 0..nummsg' - 1 = (0..nummsg - 1) \cup {nummsg}
    BY <1>2 DEF PartType
  <2>8. Used' = Used \cup {b}
    BY <2>2, <2>4, <2>6, <2>7 DEF Used
  <2>9. \A i, j \in 0..nummsg' - 1 : txtbuff'[i] = txtbuff'[j] => i = j
    BY <2>1, <2>2, <2>4, <2>6, <2>7 DEF BuffersOwned, Used
  <2> QED
    BY <2>1, <2>3, <2>5, <2>8, <2>9 DEF BuffersOwned
<1> QED
  BY <1>1, <1>2 DEF Push, Recycle, Take

(* Clearing the buffers of a final or of an initial part of the stack and  *)
(* keeping the pointers of the others keeps it too.                        *)
LEMMA EraseKeeps ==
    ASSUME PartType, BuffersOwned, NEW k \in 0..nummsg,
           Erase(k), nummsg' = k, txtbuff' = txtbuff
    PROVE  PartType' /\ BuffersOwned'
<1>1. PartType'
  BY DEF PartType, Erase, Contents
<1>2. \A i \in 0..k - 1 : i \in 0..nummsg - 1 /\ i \notin k..nummsg - 1
  BY DEF PartType
<1>3. 0..nummsg - 1 = (0..k - 1) \cup (k..nummsg - 1)
  BY DEF PartType
<1>4. Used' = {txtbuff[i] : i \in 0..k - 1}
  BY DEF Used
<1>5. Used' \subseteq Used
  BY <1>2, <1>4 DEF Used
<1>6. \A b \in Buffers : errbuff'[b] # NoText <=> b \in Used'
  <2> SUFFICES ASSUME NEW b \in Buffers PROVE errbuff'[b] # NoText <=> b \in Used'
    OBVIOUS
  <2>1. errbuff'[b] = IF \E i \in k..nummsg - 1 : txtbuff[i] = b THEN NoText ELSE errbuff[b]
    BY DEF Erase
  <2>2. ASSUME NEW i \in k..nummsg - 1, txtbuff[i] = b PROVE b \notin Used'
    BY <2>2, <1>2, <1>3, <1>4 DEF BuffersOwned
  <2>3. ASSUME \A i \in k..nummsg - 1 : txtbuff[i] # b PROVE b \in Used <=> b \in Used'
    BY <2>3, <1>3, <1>4 DEF Used
  <2> QED
    BY <2>1, <2>2, <2>3, <1>5 DEF BuffersOwned
<1>7. \A b \in Buffers : errbuff'[b] # Garbled
  BY DEF BuffersOwned, Erase
<1>8. \A i, j \in 0..nummsg' - 1 : txtbuff'[i] = txtbuff'[j] => i = j
  BY <1>2 DEF BuffersOwned
<1> QED
  BY <1>1, <1>5, <1>6, <1>7, <1>8 DEF BuffersOwned

(* Reading keeps it: the pointers that move down are those of the messages *)
(* left.                                                                   *)
LEMMA PopKeeps ==
    ASSUME PartType, BuffersOwned, NEW d \in 0..nummsg, Pop(d)
    PROVE  PartType' /\ BuffersOwned'
<1>0. d \in Nat /\ nummsg \in Nat /\ d <= nummsg /\ nummsg <= errmsgsiz
  BY DEF PartType
<1>1. \A i \in 0..nummsg - d - 1 : txtbuff'[i] = txtbuff[i + d] /\ i + d \in d..nummsg - 1
  BY <1>0 DEF Pop, Slots
<1>2. Used' = {txtbuff[i] : i \in d..nummsg - 1}
  <2>1. \A j \in d..nummsg - 1 : j - d \in 0..nummsg - d - 1 /\ txtbuff'[j - d] = txtbuff[j]
    BY <1>0, <1>1
  <2>2. nummsg' - 1 = nummsg - d - 1
    BY <1>0 DEF Pop
  <2> QED
    BY <1>1, <2>1, <2>2 DEF Used
<1>3. PartType'
  <2>1. nummsg' \in 0..errmsgsiz
    BY <1>0 DEF Pop
  <2>2. errbuff' \in [Buffers -> Contents]
    BY DEF Pop, PartType, Contents
  <2>3. txtbuff' \in [Slots -> Buffers \cup {0}]
    BY <1>0 DEF Pop, PartType, Slots
  <2> QED
    BY <2>1, <2>2, <2>3 DEF PartType
<1>4. 0..nummsg - 1 = (0..d - 1) \cup (d..nummsg - 1) /\ (0..d - 1) \cap (d..nummsg - 1) = {}
  BY <1>0
<1>5. \A b \in Buffers : errbuff'[b] # NoText <=> b \in Used'
  <2> SUFFICES ASSUME NEW b \in Buffers PROVE errbuff'[b] # NoText <=> b \in Used'
    OBVIOUS
  <2>1. errbuff'[b] = IF \E i \in 0..d - 1 : txtbuff[i] = b THEN NoText ELSE errbuff[b]
    BY DEF Pop
  <2>2. ASSUME NEW i \in 0..d - 1, txtbuff[i] = b PROVE b \notin Used'
    BY <2>2, <1>2, <1>4 DEF BuffersOwned
  <2>3. ASSUME \A i \in 0..d - 1 : txtbuff[i] # b PROVE b \in Used <=> b \in Used'
    BY <2>3, <1>2, <1>4 DEF Used
  <2> QED
    BY <2>1, <2>2, <2>3, <1>2, <1>4 DEF BuffersOwned, Used
<1>6. \A b \in Buffers : errbuff'[b] # Garbled
  BY DEF BuffersOwned, Pop
<1>7. \A i, j \in 0..nummsg' - 1 : txtbuff'[i] = txtbuff'[j] => i = j
  <2>1. nummsg' - 1 = nummsg - d - 1
    BY <1>0 DEF Pop
  <2>2. \A i \in 0..nummsg - d - 1 : i + d \in 0..nummsg - 1
    BY <1>0
  <2> QED
    BY <1>0, <1>1, <2>1, <2>2 DEF BuffersOwned
<1>8. Used' \subseteq Buffers
  BY <1>2, <1>4 DEF BuffersOwned, Used
<1> QED
  BY <1>3, <1>5, <1>6, <1>7, <1>8 DEF BuffersOwned

-----------------------------------------------------------------------------
(* What the operations do to the messages, seen as a sequence.             *)
LEMMA StackIsSeq ==
    ASSUME PartType, BuffersOwned
    PROVE  /\ Stack \in Seq(Texts \cup {Mark})
           /\ Len(Stack) = nummsg
           /\ \A i \in 0..nummsg - 1 : errbuff[txtbuff[i]] = Stack[i + 1]
<1>1. \A i \in 0..nummsg - 1 : errbuff[txtbuff[i]] \in Texts \cup {Mark}
  BY DEF PartType, BuffersOwned, Used, Contents
<1>2. nummsg \in Nat /\ \A i \in 1..nummsg : i - 1 \in 0..nummsg - 1
  BY DEF PartType
<1>3. Stack \in [1..nummsg -> Texts \cup {Mark}]
  BY <1>1, <1>2 DEF Stack
<1>4. \A i \in 0..nummsg - 1 : i + 1 \in 1..nummsg /\ (i + 1) - 1 = i
  BY <1>2
<1>5. Stack \in Seq(Texts \cup {Mark}) /\ Len(Stack) = nummsg
  BY <1>2, <1>3
<1>6. \A i \in 1..nummsg : Stack[i] = errbuff[txtbuff[i - 1]]
  BY DEF Stack
<1>7. ASSUME NEW i \in 0..nummsg - 1 PROVE errbuff[txtbuff[i]] = Stack[i + 1]
  <2>1. i + 1 \in 1..nummsg /\ (i + 1) - 1 = i
    BY <1>4
  <2>2. Stack[i + 1] = errbuff[txtbuff[(i + 1) - 1]]
    BY <1>6, <2>1
  <2> QED BY <2>1, <2>2
<1> QED BY <1>5, <1>7

(* A message that is put is the newest; on a full stack the oldest leaves. *)
LEMMA PushStack ==
    ASSUME PartType, BuffersOwned, NEW m \in Texts \cup {Mark}, Push(m)
    PROVE  /\ Overrun \in {0, 1} /\ Overrun <= nummsg
           /\ nummsg' = nummsg + 1 - Overrun
           /\ Stack'[nummsg'] = m
           /\ \A i \in 1..nummsg' - 1 : Stack'[i] = Stack[i + Overrun]
<1>0. nummsg \in Nat /\ nummsg' \in Nat /\ nummsg <= errmsgsiz /\ PartType' /\ BuffersOwned'
  BY PushKeeps DEF PartType
<1>1. CASE nummsg = errmsgsiz /\ nummsg' = nummsg
           /\ errbuff' = [errbuff EXCEPT ![txtbuff[0]] = m]
           /\ txtbuff' = [i \in Slots |-> txtbuff[IF i = errmsgsiz - 1 THEN 0 ELSE i + 1]]
  <2>1. Overrun = 1
    BY <1>1 DEF Overrun
  <2>2. txtbuff[0] \in Buffers /\ txtbuff'[nummsg - 1] = txtbuff[0]
    BY <1>0, <1>1 DEF BuffersOwned, Used, Slots
  <2>3. Stack'[nummsg'] = m
    BY <1>0, <1>1, <2>2 DEF Stack, PartType
  <2>4. ASSUME NEW i \in 1..nummsg' - 1 PROVE Stack'[i] = Stack[i + Overrun]
    <3>1. i \in 1..nummsg' /\ i + 1 \in 1..nummsg /\ i - 1 \in Slots /\ i - 1 # errmsgsiz - 1
          /\ i \in 0..nummsg - 1 /\ (i + 1) - 1 = i /\ (i - 1) + 1 = i
      BY <1>0, <1>1 DEF Slots
    <3>2. txtbuff'[i - 1] = txtbuff[i]
      BY <1>1, <3>1
    <3>3. txtbuff[i] # txtbuff[0]
      BY <1>0, <1>1, <3>1 DEF BuffersOwned
    <3>4. errbuff'[txtbuff[i]] = errbuff[txtbuff[i]]
      BY <1>1, <3>1, <3>3 DEF PartType, BuffersOwned, Used
    <3> QED
      BY <2>1, <3>1, <3>2, <3>4 DEF Stack
  <2> QED
    BY <1>0, <1>1, <2>1, <2>3, <2>4
<1>2. ASSUME nummsg < errmsgsiz, nummsg' = nummsg + 1,
             NEW b \in IF Free = {} THEN {txtbuff[nummsg]} ELSE Free,
             errbuff' = [errbuff EXCEPT ![b] = IF m = Mark THEN Mark ELSE Into(@, m)],
             txtbuff' = [txtbuff EXCEPT ![nummsg] = b]
      PROVE  /\ Overrun = 0
             /\ Stack'[nummsg'] = m
             /\ \A i \in 1..nummsg' - 1 : Stack'[i] = Stack[i]
  <2>1. b \in Buffers /\ errbuff[b] = NoText /\ b \notin Used
    BY <1>2, SomeBufferIsFree DEF Free, BuffersOwned
  <2>2. nummsg \in Slots /\ Overrun = 0 /\ (nummsg + 1) - 1 = nummsg
    BY <1>0, <1>2 DEF Slots, Overrun
  <2>3. \A c \in Buffers : errbuff'[c] = IF c = b THEN m ELSE errbuff[c]
    BY <1>2, <2>1 DEF PartType, Into
  <2>4. \A i \in Slots : txtbuff'[i] = IF i = nummsg THEN b ELSE txtbuff[i]
    BY <1>2, <2>2 DEF PartType
  <2>5. Stack'[nummsg'] = m
    BY <1>0, <1>2, <2>1, <2>2, <2>3, <2>4 DEF Stack
  <2>6. ASSUME NEW i \in 1..nummsg PROVE Stack'[i] = Stack[i]
    <3>1. i - 1 \in Slots /\ i - 1 # nummsg /\ i - 1 \in 0..nummsg - 1 /\ i \in 1..nummsg'
      BY <1>0, <1>2 DEF Slots
    <3>2. txtbuff[i - 1] \in Buffers /\ txtbuff[i - 1] # b
      BY <2>1, <3>1 DEF BuffersOwned, Used
    <3> QED
      BY <2>3, <2>4, <3>1, <3>2 DEF Stack
  <2> QED
    BY <1>0, <1>2, <2>2, <2>5, <2>6
<1>3. Overrun = 0 => nummsg' = nummsg + 1 - Overrun
  BY <1>0, <1>1, <1>2 DEF Push, Recycle, Take, Overrun
<1> QED
  BY <1>0, <1>1, <1>2, <1>3 DEF Push, Recycle, Take

LEMMA EraseStack ==
    ASSUME PartType, BuffersOwned, NEW k \in 0..nummsg,
           Erase(k), nummsg' = k, txtbuff' = txtbuff
    PROVE  \A i \in 1..k : Stack'[i] = Stack[i]
<1> SUFFICES ASSUME NEW i \in 1..k PROVE Stack'[i] = Stack[i]
  OBVIOUS
<1>1. i \in 1..nummsg' /\ i \in 1..nummsg /\ i - 1 \in 0..nummsg - 1 /\ i - 1 \notin k..nummsg - 1
  BY DEF PartType
<1>2. txtbuff[i - 1] \in Buffers /\ \A j \in k..nummsg - 1 : j \in 0..nummsg - 1 /\ txtbuff[j] # txtbuff[i - 1]
  BY <1>1 DEF BuffersOwned, Used, PartType
<1>3. errbuff'[txtbuff[i - 1]] = errbuff[txtbuff[i - 1]]
  BY <1>2 DEF Erase
<1> QED
  BY <1>1, <1>3 DEF Stack

LEMMA PopStack ==
    ASSUME PartType, BuffersOwned, NEW d \in 0..nummsg, Pop(d)
    PROVE  nummsg' = nummsg - d /\ \A i \in 1..nummsg - d : Stack'[i] = Stack[i + d]
<1>0. d \in Nat /\ nummsg \in Nat /\ nummsg' = nummsg - d /\ nummsg <= errmsgsiz
  BY DEF PartType, Pop
<1> SUFFICES ASSUME NEW i \in 1..nummsg - d PROVE Stack'[i] = Stack[i + d]
  BY <1>0
<1>1. /\ i \in 1..nummsg' /\ i + d \in 1..nummsg /\ i - 1 \in Slots /\ (i - 1) + d = (i + d) - 1
      /\ i - 1 < nummsg /\ (i - 1) + d < nummsg /\ (i + d) - 1 \in 0..nummsg - 1
      /\ (i + d) - 1 \notin 0..d - 1
  BY <1>0 DEF Slots
<1>2. txtbuff'[i - 1] = txtbuff[(i + d) - 1]
  BY <1>0, <1>1 DEF Pop
<1>3. /\ txtbuff[(i + d) - 1] \in Buffers
      /\ \A j \in 0..d - 1 : j \in 0..nummsg - 1 /\ txtbuff[j] # txtbuff[(i + d) - 1]
  BY <1>0, <1>1 DEF BuffersOwned, Used
<1>4. errbuff'[txtbuff[(i + d) - 1]] = errbuff[txtbuff[(i + d) - 1]]
  BY <1>3 DEF Pop
<1> QED
  BY <1>1, <1>2, <1>4 DEF Stack

-----------------------------------------------------------------------------
(* What an action that stores a message, erases some or reads one leaves   *)
(* of what a trial should leave.                                           *)
LEMMA LostType ==
    ASSUME trial \in Seq(Contents), NEW d \in Nat
    PROVE  Lost(d) \in Seq(Contents)
<1>1. Len(trial) \in Int /\ \A i \in d + 1..Len(trial) : trial[i] \in Contents
  BY LenProperties
<1> QED
  BY <1>1, SubSeqProperties DEF Lost

(* One action keeps the types and the ownership of the buffers.            *)
LEMMA InvStep ==
    ASSUME Inv, [Next]_vars
    PROVE  Inv'
<1> USE DEF Inv
<1>0. PartType /\ nummsg \in Nat /\ Overrun \in Nat
  BY DEF TypeOK, PartType, Overrun
<1>1. ASSUME PartType', BuffersOwned', answer' \in Texts \cup {NoText}, rest' \in Seq(Texts),
             reporting' \in BOOLEAN, trial' \in Seq(Contents)
      PROVE  Inv'
  BY <1>1 DEF PartType, TypeOK
<1>2. ASSUME NEW pieces \in Messages, ffpmsg(pieces) PROVE Inv'
  <2>1. pieces \in Seq(Texts) /\ pieces # <<>>
    BY <1>2 DEF Messages, ffpmsg
  <2>2. Head(pieces) \in Texts /\ Tail(pieces) \in Seq(Texts)
    BY <2>1
  <2>3. PartType' /\ BuffersOwned'
    BY <1>0, <1>2, <2>2, PushKeeps DEF ffpmsg
  <2> QED
    BY <1>0, <1>1, <1>2, <2>2, <2>3, LostType DEF ffpmsg, TypeOK
<1>3. CASE NextPiece
  <2>1. Head(rest) \in Texts /\ Tail(rest) \in Seq(Texts)
    BY <1>3 DEF NextPiece, TypeOK
  <2>2. PartType' /\ BuffersOwned'
    BY <1>0, <1>3, <2>1, PushKeeps DEF NextPiece
  <2> QED
    BY <1>0, <1>1, <1>3, <2>1, <2>2, LostType DEF NextPiece, TypeOK
<1>4. CASE ffpmrk
  <2>1. PartType' /\ BuffersOwned'
    BY <1>0, <1>4, PushKeeps DEF ffpmrk
  <2>2. \A i \in Overrun + 1..nummsg : Stack[i] \in Contents
    BY <1>0, StackIsSeq DEF Contents
  <2>3. SubSeq(Stack, Overrun + 1, nummsg) \in Seq(Contents)
    BY <1>0, <2>2, SubSeqProperties
  <2> QED
    BY <1>1, <1>4, <2>1, <2>3 DEF ffpmrk, TypeOK
<1>5. CASE ffcmrk
  <2>1. PartType' /\ BuffersOwned'
    BY <1>0, <1>5, EraseKeeps DEF ffcmrk
  <2>2. NoTrial \in Seq(Contents)
    BY DEF NoTrial, Contents
  <2> QED
    BY <1>1, <1>5, <2>1, <2>2 DEF ffcmrk, TypeOK
<1>6. CASE EndTrial
  <2>1. NoTrial \in Seq(Contents)
    BY DEF NoTrial, Contents
  <2> QED
    BY <1>6, <2>1 DEF EndTrial, TypeOK, BuffersOwned, Used
<1>7. CASE ffcmsg
  <2>1. PartType' /\ BuffersOwned'
    BY <1>0, <1>7, EraseKeeps DEF ffcmsg
  <2> QED
    BY <1>0, <1>1, <1>7, <2>1, LostType DEF ffcmsg, TypeOK
<1>8. CASE ffgmsg
  <2>1. PICK d \in 0..nummsg :
          /\ \/ d > 0 /\ errbuff[txtbuff[d - 1]] # Mark /\ answer' = errbuff[txtbuff[d - 1]]
             \/ answer' = NoText
          /\ Pop(d)
    BY <1>8 DEF ffgmsg
  <2>2. PartType' /\ BuffersOwned'
    BY <1>0, <2>1, PopKeeps
  <2>3. answer' \in Texts \cup {NoText}
    BY <1>0, <2>1, StackIsSeq
  <2>4. trial' \in Seq(Contents)
    BY <1>0, <2>1, LostType DEF Pop, TypeOK
  <2> QED
    BY <1>1, <1>8, <2>2, <2>3, <2>4 DEF ffgmsg, TypeOK
<1>9. CASE ffrprt
  BY <1>9 DEF ffrprt, TypeOK, BuffersOwned, Used
<1>10. CASE UNCHANGED vars
  BY <1>10 DEF vars, TypeOK, BuffersOwned, Used
<1> QED
  BY <1>2, <1>3, <1>4, <1>5, <1>6, <1>7, <1>8, <1>9, <1>10 DEF Next

(* The pointers start unused, the buffers empty.                           *)
LEMMA InitInv == Init => Inv
<1> SUFFICES ASSUME Init PROVE Inv
  OBVIOUS
<1>1. Used = {}
  BY DEF Init, Used
<1>2. NoTrial \in Seq(Contents)
  BY DEF NoTrial, Contents
<1>3. TypeOK
  <2>1. errbuff \in [Buffers -> Contents] /\ txtbuff \in [Slots -> Buffers \cup {0}]
    BY DEF Init, Contents
  <2>2. rest \in Seq(Texts) /\ answer \in Texts \cup {NoText}
    BY DEF Init
  <2>3. reporting \in BOOLEAN
    BY Zenon DEF Init
  <2>4. nummsg \in 0..errmsgsiz /\ trial \in Seq(Contents)
    BY <1>2 DEF Init
  <2> QED
    BY <2>1, <2>2, <2>3, <2>4 DEF TypeOK
<1>4. \A i, j \in 0..nummsg - 1 : txtbuff[i] = txtbuff[j] => i = j
  BY DEF Init
<1>5. \A b \in Buffers : errbuff[b] = NoText
  BY DEF Init
<1> QED
  BY <1>1, <1>3, <1>4, <1>5 DEF Inv, BuffersOwned

(* Every variable is of its type in every state, for any number of         *)
(* buffers.                                                                *)
THEOREM TypeAlways == Spec => []TypeOK
<1>1. Inv => TypeOK
  BY DEF Inv
<1> QED
  BY InitInv, InvStep, <1>1, PTL DEF Spec

(* The messages on the stack of ffxmsg never share a buffer and no text is *)
(* appended to another, for any number of buffers and any calls.           *)
THEOREM BuffersAlwaysOwned == Spec => []BuffersOwned
<1>1. Inv => BuffersOwned
  BY DEF Inv
<1> QED
  BY InitInv, InvStep, <1>1, PTL DEF Spec

-----------------------------------------------------------------------------
(* While a trial goes on, what it should leave is the oldest part of the   *)
(* stack, its mark follows it, and no mark is newer; when nothing should   *)
(* be left the mark may itself be gone.                                    *)
TrialInv ==
    trial # NoTrial =>
      /\ Len(trial) <= nummsg
      /\ \A i \in 1..Len(trial) : trial[i] = Stack[i]
      /\ \A i \in Len(trial) + 2..nummsg : Stack[i] # Mark
      /\ Len(trial) > 0 => Len(trial) < nummsg /\ Stack[Len(trial) + 1] = Mark

(* What Lost(d) is for a trial whose older messages are on the stack.      *)
LEMMA LostIs ==
    ASSUME Inv, TrialInv, NEW d \in Nat, trial # NoTrial
    PROVE  /\ Lost(d) # NoTrial
           /\ Len(Lost(d)) = IF d < Len(trial) THEN Len(trial) - d ELSE 0
           /\ \A i \in 1..Len(Lost(d)) : Lost(d)[i] = Stack[i + d]
<1>1. trial \in Seq(Contents) /\ Len(trial) \in Nat /\ nummsg \in Nat
  BY LenProperties DEF Inv, TypeOK
<1>2. \A i \in d + 1..Len(trial) : trial[i] \in Contents
  BY <1>1, LenProperties
<1>3. Lost(d) = SubSeq(trial, d + 1, Len(trial))
  BY DEF Lost
<1>4. /\ Len(Lost(d)) = IF d < Len(trial) THEN Len(trial) - d ELSE 0
      /\ \A i \in 1..Len(trial) - d : Lost(d)[i] = trial[i + d]
  BY <1>1, <1>2, <1>3, SubSeqProperties
<1>5. \A i \in 1..Len(Lost(d)) : Lost(d)[i] = Stack[i + d] /\ i + d \in 1..nummsg
  BY <1>1, <1>4 DEF TrialInv
<1>6. \A i \in 1..nummsg : Stack[i] # NoText
  BY StackIsSeq DEF Inv, TypeOK, PartType
<1>7. Lost(d) # NoTrial
  <2> SUFFICES ASSUME Lost(d) = <<NoText>> PROVE FALSE
    BY DEF NoTrial
  <2>1. 1 \in 1..Len(Lost(d)) /\ Lost(d)[1] = NoText
    OBVIOUS
  <2> QED
    BY <2>1, <1>5, <1>6
<1> QED
  BY <1>4, <1>5, <1>7

LEMMA PushKeepsTrial ==
    ASSUME Inv, TrialInv, NEW m \in Texts, Push(m), trial' = Lost(Overrun)
    PROVE  TrialInv'
<1> SUFFICES ASSUME trial' # NoTrial PROVE TrialInv'
  BY DEF TrialInv
<1>0. PartType /\ BuffersOwned /\ nummsg \in Nat /\ Len(trial) \in Nat
  BY LenProperties DEF Inv, TypeOK, PartType
<1>1. trial # NoTrial
  BY DEF Lost
<1>2. /\ Overrun \in {0, 1} /\ Overrun <= nummsg
      /\ nummsg' = nummsg + 1 - Overrun
      /\ Stack'[nummsg'] = m
      /\ \A i \in 1..nummsg' - 1 : Stack'[i] = Stack[i + Overrun]
  BY <1>0, PushStack
<1>3. /\ Len(trial') = IF Overrun < Len(trial) THEN Len(trial) - Overrun ELSE 0
      /\ \A i \in 1..Len(trial') : trial'[i] = Stack[i + Overrun]
  BY <1>1, <1>2, LostIs
<1>4. /\ Len(trial) <= nummsg
      /\ \A i \in Len(trial) + 2..nummsg : Stack[i] # Mark
      /\ Len(trial) > 0 => Len(trial) < nummsg /\ Stack[Len(trial) + 1] = Mark
  BY <1>1 DEF TrialInv
<1>5. Len(trial') \in Nat /\ Len(trial') <= nummsg'
  BY <1>0, <1>2, <1>3, <1>4
<1>6. \A i \in 1..Len(trial') : trial'[i] = Stack'[i]
  BY <1>0, <1>2, <1>3, <1>4
<1>7. ASSUME NEW i \in Len(trial') + 2..nummsg' PROVE Stack'[i] # Mark
  <2>1. CASE i = nummsg'
    BY <1>2, <2>1
  <2>2. CASE i # nummsg'
    <3>1. i \in 1..nummsg' - 1 /\ i + Overrun \in Len(trial) + 2..nummsg
      BY <1>0, <1>2, <1>3, <1>5, <2>2
    <3> QED
      BY <1>2, <1>4, <3>1
  <2> QED
    BY <2>1, <2>2
<1>8. ASSUME Len(trial') > 0 PROVE Len(trial') < nummsg' /\ Stack'[Len(trial') + 1] = Mark
  <2>1. Len(trial') + 1 \in 1..nummsg' - 1 /\ Len(trial') + 1 + Overrun = Len(trial) + 1
    BY <1>0, <1>2, <1>3, <1>4, <1>8
  <2> QED
    BY <1>0, <1>2, <1>4, <1>5, <1>8, <2>1
<1> QED
  BY <1>5, <1>6, <1>7, <1>8 DEF TrialInv

LEMMA PopKeepsTrial ==
    ASSUME Inv, TrialInv, NEW d \in 0..nummsg, Pop(d)
    PROVE  TrialInv'
<1> SUFFICES ASSUME trial' # NoTrial PROVE TrialInv'
  BY DEF TrialInv
<1>0. PartType /\ BuffersOwned /\ nummsg \in Nat /\ Len(trial) \in Nat /\ d \in Nat /\ d <= nummsg
  BY LenProperties DEF Inv, TypeOK, PartType
<1>1. trial # NoTrial /\ trial' = Lost(d)
  BY DEF Lost, Pop
<1>2. nummsg' = nummsg - d /\ \A i \in 1..nummsg - d : Stack'[i] = Stack[i + d]
  BY <1>0, PopStack
<1>3. /\ Len(trial') = IF d < Len(trial) THEN Len(trial) - d ELSE 0
      /\ \A i \in 1..Len(trial') : trial'[i] = Stack[i + d]
  BY <1>0, <1>1, LostIs
<1>4. /\ Len(trial) <= nummsg
      /\ \A i \in Len(trial) + 2..nummsg : Stack[i] # Mark
      /\ Len(trial) > 0 => Len(trial) < nummsg /\ Stack[Len(trial) + 1] = Mark
  BY <1>1 DEF TrialInv
<1>5. Len(trial') \in Nat /\ Len(trial') <= nummsg'
  BY <1>0, <1>2, <1>3, <1>4
<1>6. \A i \in 1..Len(trial') : trial'[i] = Stack'[i]
  BY <1>0, <1>2, <1>3, <1>4
<1>7. ASSUME NEW i \in Len(trial') + 2..nummsg' PROVE Stack'[i] # Mark
  <2>1. i \in 1..nummsg - d /\ i + d \in Len(trial) + 2..nummsg
    BY <1>0, <1>2, <1>3, <1>5
  <2> QED
    BY <1>2, <1>4, <2>1
<1>8. ASSUME Len(trial') > 0 PROVE Len(trial') < nummsg' /\ Stack'[Len(trial') + 1] = Mark
  <2>1. Len(trial') + 1 \in 1..nummsg - d /\ Len(trial') + 1 + d = Len(trial) + 1
    BY <1>0, <1>2, <1>3, <1>4, <1>8
  <2> QED
    BY <1>0, <1>2, <1>4, <1>5, <1>8, <2>1
<1> QED
  BY <1>5, <1>6, <1>7, <1>8 DEF TrialInv

(* ffcmrk erases back to the trial's own mark, or everything when that is  *)
(* gone.                                                                   *)
LEMMA UndoLeavesTrial ==
    ASSUME Inv, TrialInv, ffcmrk
    PROVE  Stack' = trial
<1>0. PartType /\ BuffersOwned /\ nummsg \in Nat /\ Len(trial) \in Nat /\ trial \in Seq(Contents)
  BY LenProperties DEF Inv, TypeOK, PartType
<1>1. /\ Len(trial) <= nummsg
      /\ \A i \in 1..Len(trial) : trial[i] = Stack[i]
      /\ \A i \in Len(trial) + 2..nummsg : Stack[i] # Mark
      /\ Len(trial) > 0 => Len(trial) < nummsg /\ Stack[Len(trial) + 1] = Mark
  BY DEF TrialInv, ffcmrk
<1>2. PICK k \in 0..nummsg :
          /\ \A i \in k + 1..nummsg - 1 : errbuff[txtbuff[i]] # Mark
          /\ k = 0 \/ (k < nummsg /\ errbuff[txtbuff[k]] = Mark)
          /\ Erase(k)
          /\ nummsg' = k
  BY DEF ffcmrk
<1>3. \A i \in 0..nummsg - 1 : errbuff[txtbuff[i]] = Stack[i + 1]
  BY <1>0, StackIsSeq
<1>4. k = Len(trial)
  <2>1. ASSUME k < Len(trial) PROVE FALSE
    <3>1. Len(trial) \in k + 1..nummsg - 1 /\ Len(trial) \in 0..nummsg - 1
      BY <1>0, <1>1, <1>2, <2>1
    <3> QED
      BY <1>1, <1>2, <1>3, <2>1, <3>1
  <2>2. ASSUME k > Len(trial) PROVE FALSE
    <3>1. k < nummsg /\ k \in 0..nummsg - 1 /\ k + 1 \in Len(trial) + 2..nummsg
      BY <1>0, <1>2, <2>2
    <3> QED
      BY <1>0, <1>1, <1>2, <1>3, <2>2, <3>1
  <2> QED
    BY <1>0, <1>2, <2>1, <2>2
<1>5. \A i \in 1..k : Stack'[i] = Stack[i]
  BY <1>0, <1>2, EraseStack DEF ffcmrk
<1>6. \A i \in 1..k : Stack'[i] = trial[i]
  BY <1>1, <1>4, <1>5
<1>7. Stack' = [i \in 1..k |-> errbuff'[txtbuff'[i - 1]]]
  BY <1>2 DEF Stack
<1>8. trial = [i \in 1..k |-> trial[i]]
  BY <1>0, <1>4, LenProperties
<1> QED
  BY <1>6, <1>7, <1>8

LEMMA TrialStep ==
    ASSUME Inv, TrialInv, [Next]_vars
    PROVE  TrialInv'
<1>0. PartType /\ BuffersOwned /\ nummsg \in Nat
  BY DEF Inv, TypeOK, PartType
<1>1. ASSUME NEW pieces \in Messages, ffpmsg(pieces) PROVE TrialInv'
  <2>1. pieces \in Seq(Texts) /\ pieces # <<>>
    BY <1>1 DEF Messages, ffpmsg
  <2>2. Head(pieces) \in Texts
    BY <2>1
  <2> QED
    BY <1>1, <2>2, PushKeepsTrial DEF ffpmsg
<1>2. CASE NextPiece
  <2>1. Head(rest) \in Texts
    BY <1>2 DEF NextPiece, Inv, TypeOK
  <2> QED
    BY <1>2, <2>1, PushKeepsTrial DEF NextPiece
<1>3. CASE ffpmrk
  <2>1. /\ Overrun \in {0, 1} /\ Overrun <= nummsg
        /\ nummsg' = nummsg + 1 - Overrun
        /\ Stack'[nummsg'] = Mark
        /\ \A i \in 1..nummsg' - 1 : Stack'[i] = Stack[i + Overrun]
    BY <1>0, <1>3, PushStack DEF ffpmrk
  <2>2. \A i \in Overrun + 1..nummsg : Stack[i] \in Contents
    BY <1>0, <2>1, StackIsSeq DEF Contents
  <2>3. /\ Len(trial') = nummsg - Overrun
        /\ \A i \in 1..nummsg - Overrun : trial'[i] = Stack[i + Overrun]
    BY <1>0, <1>3, <2>1, <2>2, SubSeqProperties DEF ffpmrk
  <2>4. Len(trial') = nummsg' - 1 /\ nummsg' \in Nat /\ Len(trial') \in Nat
    BY <1>0, <2>1, <2>3
  <2>5. \A i \in 1..Len(trial') : trial'[i] = Stack'[i]
    BY <1>0, <2>1, <2>3
  <2>6. Len(trial') + 1 = nummsg' /\ Len(trial') <= nummsg' /\ Len(trial') < nummsg'
    BY <1>0, <2>1, <2>3
  <2>7. \A i \in Len(trial') + 2..nummsg' : FALSE
    BY <1>0, <2>1, <2>3
  <2>8. Stack'[Len(trial') + 1] = Mark
    BY <2>1, <2>6
  <2> QED
    BY <2>5, <2>6, <2>7, <2>8 DEF TrialInv
<1>4. CASE ffcmrk \/ EndTrial
  BY <1>4 DEF ffcmrk, EndTrial, TrialInv
<1>5. CASE ffcmsg
  <2>1. nummsg' = 0 /\ trial' = Lost(nummsg)
    BY <1>5 DEF ffcmsg
  <2>2. trial = NoTrial => trial' = NoTrial
    BY <2>1 DEF Lost
  <2>3. ASSUME trial # NoTrial PROVE Len(trial') = 0
    <3>1. Len(trial') = IF nummsg < Len(trial) THEN Len(trial) - nummsg ELSE 0
      BY <1>0, <2>1, <2>3, LostIs
    <3>2. Len(trial) \in Nat /\ Len(trial) <= nummsg
      BY <2>3, LenProperties DEF TrialInv, Inv, TypeOK
    <3> QED
      BY <1>0, <3>1, <3>2
  <2> QED
    BY <2>1, <2>2, <2>3 DEF TrialInv
<1>6. CASE ffgmsg
  BY <1>6, PopKeepsTrial DEF ffgmsg
<1>7. CASE ffrprt
  BY <1>7 DEF ffrprt, TrialInv, Stack
<1>8. CASE UNCHANGED vars
  BY <1>8 DEF vars, TrialInv, Stack
<1> QED
  BY <1>1, <1>2, <1>3, <1>4, <1>5, <1>6, <1>7, <1>8 DEF Next

(* A trial that is undone leaves exactly the older messages that were not  *)
(* read or dropped meanwhile, whatever was put during it.                  *)
THEOREM TrialsLeaveOlder == Spec => TrialLeavesOlder
<1>1. Init => Inv /\ TrialInv
  BY InitInv DEF Init, TrialInv
<1>2. Inv /\ TrialInv /\ [Next]_vars => Inv' /\ TrialInv' /\ [ffcmrk => Stack' = trial]_vars
  BY InvStep, TrialStep, UndoLeavesTrial
<1> QED
  BY <1>1, <1>2, PTL DEF Spec, TrialLeavesOlder

-----------------------------------------------------------------------------
(* The buffers implement the bounded sequence.                             *)
LEMMA PutSimulates ==
    ASSUME Inv, NEW m \in Texts \cup {Mark}, Push(m), answer' = answer
    PROVE  ES!Put(m)
<1>0. PartType /\ BuffersOwned /\ nummsg \in Nat /\ errmsgsiz \in Nat /\ nummsg <= errmsgsiz
  BY DEF Inv, TypeOK, PartType
<1>1. /\ Stack \in Seq(Texts \cup {Mark}) /\ Len(Stack) = nummsg
      /\ Overrun \in {0, 1} /\ Overrun <= nummsg
      /\ nummsg' = nummsg + 1 - Overrun
      /\ Stack'[nummsg'] = m
      /\ \A i \in 1..nummsg' - 1 : Stack'[i] = Stack[i + Overrun]
  BY <1>0, StackIsSeq, PushStack
<1> DEFINE long == Append(Stack, m)
<1>2. /\ long \in Seq(Texts \cup {Mark}) /\ Len(long) = nummsg + 1
      /\ \A i \in 1..nummsg + 1 : long[i] = IF i <= nummsg THEN Stack[i] ELSE m
  BY <1>0, <1>1
<1>3. \A i \in 1..nummsg' : Stack'[i] = long[i + Overrun]
  <2> SUFFICES ASSUME NEW i \in 1..nummsg' PROVE Stack'[i] = long[i + Overrun]
    OBVIOUS
  <2>1. CASE i = nummsg'
    <3>1. i + Overrun = nummsg + 1
      BY <1>0, <1>1, <2>1
    <3> QED
      BY <1>0, <1>1, <1>2, <2>1, <3>1
  <2>2. CASE i # nummsg'
    <3>1. i \in 1..nummsg' - 1 /\ i + Overrun \in 1..nummsg
      BY <1>0, <1>1, <2>2
    <3> QED
      BY <1>0, <1>1, <1>2, <3>1
  <2> QED
    BY <2>1, <2>2
<1>4. ES!Newest(long) = IF Overrun = 1 THEN SubSeq(long, 2, nummsg + 1) ELSE long
  <2>1. Len(long) > errmsgsiz <=> Overrun = 1
    BY <1>0, <1>2 DEF Overrun
  <2>2. Overrun = 1 => (nummsg + 1) - errmsgsiz + 1 = 2
    BY <1>0 DEF Overrun
  <2> HIDE DEF long
  <2> QED
    BY <1>2, <2>1, <2>2 DEF ES!Newest
<1>5. /\ ES!Newest(long) \in Seq(Texts \cup {Mark}) /\ Len(ES!Newest(long)) = nummsg'
      /\ \A i \in 1..nummsg' : ES!Newest(long)[i] = long[i + Overrun]
  <2> HIDE DEF long
  <2>1. CASE Overrun = 1
    <3>1. \A i \in 2..nummsg + 1 : long[i] \in Texts \cup {Mark}
      BY <1>0, <1>2, LenProperties
    <3>2. /\ SubSeq(long, 2, nummsg + 1) \in Seq(Texts \cup {Mark})
          /\ Len(SubSeq(long, 2, nummsg + 1)) = nummsg
          /\ \A i \in 1..nummsg : SubSeq(long, 2, nummsg + 1)[i] = long[i + 1]
      BY <1>0, <1>1, <2>1, <3>1, SubSeqProperties
    <3> QED
      BY <1>0, <1>1, <1>4, <2>1, <3>2
  <2>2. CASE Overrun = 0
    BY <1>0, <1>1, <1>2, <1>4, <2>2
  <2> QED
    BY <1>1, <2>1, <2>2
<1>6. Stack' = [i \in 1..nummsg' |-> errbuff'[txtbuff'[i - 1]]]
  BY DEF Stack
<1>7. ES!Newest(long) = [i \in 1..nummsg' |-> ES!Newest(long)[i]]
  BY <1>5, LenProperties
<1>8. Stack' = ES!Newest(long)
  <2> HIDE DEF long
  <2> QED
    BY <1>3, <1>5, <1>6, <1>7
<1> QED
  BY <1>8 DEF ES!Put

LEMMA UndoSimulates ==
    ASSUME Inv, ffcmrk
    PROVE  ES!Undo
<1>0. PartType /\ BuffersOwned /\ nummsg \in Nat
  BY DEF Inv, TypeOK, PartType
<1>1. PICK k \in 0..nummsg :
          /\ \A i \in k + 1..nummsg - 1 : errbuff[txtbuff[i]] # Mark
          /\ k = 0 \/ (k < nummsg /\ errbuff[txtbuff[k]] = Mark)
          /\ Erase(k)
          /\ nummsg' = k
  BY DEF ffcmrk
<1>2. /\ Stack \in Seq(Texts \cup {Mark}) /\ Len(Stack) = nummsg
      /\ \A i \in 0..nummsg - 1 : errbuff[txtbuff[i]] = Stack[i + 1]
  BY <1>0, StackIsSeq
<1>3. \A i \in 1..k : Stack'[i] = Stack[i]
  BY <1>0, <1>1, EraseStack DEF ffcmrk
<1>4. Stack' = [i \in 1..k |-> errbuff'[txtbuff'[i - 1]]]
  BY <1>1 DEF Stack
<1>5. ASSUME NEW j \in k + 2..nummsg PROVE Stack[j] # Mark
  <2>1. j - 1 \in k + 1..nummsg - 1 /\ j - 1 \in 0..nummsg - 1 /\ (j - 1) + 1 = j
    BY <1>0
  <2> QED
    BY <1>1, <1>2, <2>1
<1>6. CASE k < nummsg /\ errbuff[txtbuff[k]] = Mark
  <2>1. k + 1 \in 1..nummsg /\ Stack[k + 1] = Mark /\ (k + 1) - 1 = k /\ (k + 1) + 1 = k + 2
    BY <1>0, <1>2, <1>6
  <2>2. \A i \in 1..k : Stack[i] \in Texts \cup {Mark}
    BY <1>0, <1>2, LenProperties
  <2>3. /\ SubSeq(Stack, 1, k) \in Seq(Texts \cup {Mark})
        /\ Len(SubSeq(Stack, 1, k)) = k
        /\ \A i \in 1..k : SubSeq(Stack, 1, k)[i] = Stack[i]
    BY <1>0, <2>2, SubSeqProperties
  <2>4. SubSeq(Stack, 1, k) = [i \in 1..k |-> SubSeq(Stack, 1, k)[i]]
    BY <2>3, LenProperties
  <2>5. Stack' = SubSeq(Stack, 1, k)
    BY <1>3, <1>4, <2>3, <2>4
  <2>6. answer' = answer
    BY DEF ffcmrk
  <2> QED
    BY <1>2, <1>5, <2>1, <2>5, <2>6 DEF ES!Undo
<1>7. CASE k = 0 /\ ~(k < nummsg /\ errbuff[txtbuff[k]] = Mark)
  <2>1. \A j \in 1..nummsg : Stack[j] # Mark
    <3> SUFFICES ASSUME NEW j \in 1..nummsg PROVE Stack[j] # Mark
      OBVIOUS
    <3>1. CASE j = 1
      BY <1>0, <1>2, <1>7, <3>1
    <3>2. CASE j # 1
      BY <1>0, <1>5, <1>7, <3>2
    <3> QED
      BY <3>1, <3>2
  <2>2. Stack' = <<>>
    BY <1>4, <1>7
  <2> QED
    BY <1>2, <2>1, <2>2 DEF ES!Undo, ffcmrk
<1> QED
  BY <1>1, <1>6, <1>7

LEMMA ReadSimulates ==
    ASSUME Inv, ffgmsg
    PROVE  ES!Read
<1>0. PartType /\ BuffersOwned /\ nummsg \in Nat
  BY DEF Inv, TypeOK, PartType
<1>1. PICK d \in 0..nummsg :
          /\ \A i \in 0..d - 2 : errbuff[txtbuff[i]] = Mark
          /\ \/ /\ d > 0 /\ errbuff[txtbuff[d - 1]] # Mark
                /\ answer' = errbuff[txtbuff[d - 1]]
             \/ /\ d = nummsg /\ (d > 0 => errbuff[txtbuff[d - 1]] = Mark)
                /\ answer' = NoText
          /\ Pop(d)
  BY DEF ffgmsg
<1>2. /\ Stack \in Seq(Texts \cup {Mark}) /\ Len(Stack) = nummsg
      /\ \A i \in 0..nummsg - 1 : errbuff[txtbuff[i]] = Stack[i + 1]
  BY <1>0, StackIsSeq
<1>3. nummsg' = nummsg - d /\ \A i \in 1..nummsg - d : Stack'[i] = Stack[i + d]
  BY <1>0, <1>1, PopStack
<1>4. \A j \in 1..d - 1 : Stack[j] = Mark
  <2> SUFFICES ASSUME NEW j \in 1..d - 1 PROVE Stack[j] = Mark
    OBVIOUS
  <2>1. j - 1 \in 0..d - 2 /\ j - 1 \in 0..nummsg - 1 /\ (j - 1) + 1 = j
    BY <1>0
  <2> QED
    BY <1>1, <1>2, <2>1
<1>5. Stack' = [i \in 1..nummsg - d |-> errbuff'[txtbuff'[i - 1]]]
  BY <1>3 DEF Stack
<1>6. d > 0 => d \in 1..nummsg /\ errbuff[txtbuff[d - 1]] = Stack[d]
  <2>1. d > 0 => d - 1 \in 0..nummsg - 1 /\ (d - 1) + 1 = d /\ d \in 1..nummsg
    BY <1>0
  <2> QED
    BY <1>2, <2>1
<1>7. CASE d > 0 /\ errbuff[txtbuff[d - 1]] # Mark /\ answer' = errbuff[txtbuff[d - 1]]
  <2>1. \A i \in d + 1..nummsg : Stack[i] \in Texts \cup {Mark}
    BY <1>0, <1>2, LenProperties
  <2>2. /\ SubSeq(Stack, d + 1, nummsg) \in Seq(Texts \cup {Mark})
        /\ Len(SubSeq(Stack, d + 1, nummsg)) = nummsg - d
        /\ \A i \in 1..nummsg - d : SubSeq(Stack, d + 1, nummsg)[i] = Stack[i + d]
    BY <1>0, <2>1, SubSeqProperties
  <2>3. SubSeq(Stack, d + 1, nummsg) = [i \in 1..nummsg - d |-> SubSeq(Stack, d + 1, nummsg)[i]]
    BY <2>2, LenProperties
  <2>4. Stack' = SubSeq(Stack, d + 1, nummsg)
    BY <1>3, <1>5, <2>2, <2>3
  <2> QED
    BY <1>2, <1>4, <1>6, <1>7, <2>4 DEF ES!Read
<1>8. CASE d = nummsg /\ (d > 0 => errbuff[txtbuff[d - 1]] = Mark) /\ answer' = NoText
  <2>1. \A j \in 1..nummsg : Stack[j] = Mark
    <3> SUFFICES ASSUME NEW j \in 1..nummsg PROVE Stack[j] = Mark
      OBVIOUS
    <3>1. CASE j = d
      BY <1>6, <1>8, <3>1
    <3>2. CASE j # d
      BY <1>0, <1>4, <1>8, <3>2
    <3> QED
      BY <3>1, <3>2
  <2>2. Stack' = <<>>
    BY <1>0, <1>5, <1>8
  <2> QED
    BY <1>2, <1>8, <2>1, <2>2 DEF ES!Read
<1> QED
  BY <1>1, <1>7, <1>8

LEMMA ClearSimulates ==
    ASSUME ffcmsg
    PROVE  ES!Clear
<1>1. Stack' = <<>>
  BY DEF ffcmsg, Stack
<1> QED
  BY <1>1 DEF ffcmsg, ES!Clear

(* One step of the buffers is one step of the sequence, or none.           *)
LEMMA StepSimulates ==
    ASSUME Inv, [Next]_vars
    PROVE  [ES!Next]_<<Stack, answer>>
<1>1. ASSUME NEW pieces \in Messages, ffpmsg(pieces) PROVE ES!Next
  <2>1. pieces \in Seq(Texts) /\ pieces # <<>>
    BY <1>1 DEF Messages, ffpmsg
  <2>2. Head(pieces) \in Texts
    BY <2>1
  <2> QED
    BY <1>1, <2>2, PutSimulates DEF ffpmsg, ES!Next
<1>2. ASSUME NextPiece PROVE ES!Next
  <2>1. Head(rest) \in Texts
    BY <1>2 DEF NextPiece, Inv, TypeOK
  <2> QED
    BY <1>2, <2>1, PutSimulates DEF NextPiece, ES!Next
<1>3. ASSUME ffpmrk PROVE ES!Next
  BY <1>3, PutSimulates DEF ffpmrk, ES!Next
<1>4. ASSUME ffcmrk PROVE ES!Next
  BY <1>4, UndoSimulates DEF ES!Next
<1>5. ASSUME ffcmsg PROVE ES!Next
  BY <1>5, ClearSimulates DEF ES!Next
<1>6. ASSUME ffgmsg PROVE ES!Next
  BY <1>6, ReadSimulates DEF ES!Next
<1>7. ASSUME EndTrial \/ ffrprt \/ UNCHANGED vars PROVE UNCHANGED <<Stack, answer>>
  BY <1>7 DEF EndTrial, ffrprt, vars, Stack
<1> QED
  BY <1>1, <1>2, <1>3, <1>4, <1>5, <1>6, <1>7 DEF Next

(* The static buffers and shuffled pointers of ffxmsg behave as a bounded  *)
(* sequence that drops its oldest message, for any number of buffers.      *)
THEOREM StackImplementsSequence == Spec => ImplementsErrorStack
<1>1. Init => ES!Init
  <2>1. Init => Stack = <<>>
    BY DEF Init, Stack
  <2> QED
    BY <2>1 DEF Init, ES!Init
<1>2. Inv /\ [Next]_vars => [ES!Next]_<<Stack, answer>>
  BY StepSimulates
<1> QED
  BY InitInv, InvStep, <1>1, <1>2, PTL DEF Spec, ImplementsErrorStack, ES!Spec
=============================================================================
