------------------------ MODULE Configuration_proofs ------------------------
(***************************************************************************)
(* For all tables, dialogues, edits and command lines: answers reach the   *)
(* keys they were asked for, what cfgen wrote is what the converter loads, *)
(* from the file the command line names, and with cfgen's own table that   *)
(* is all the converter looks up.                                          *)
(***************************************************************************)
EXTENDS Configuration, FiniteSetTheorems, TLAPS

-----------------------------------------------------------------------------
(* parse *)

Less == OpToRel(<, Nat)

\* Numbers have a least one.
LEMMA LeastOf ==
  ASSUME NEW T, T \subseteq Nat, T # {}
  PROVE  \E x \in T : \A y \in T : x <= y
<1>1. IsWellFoundedOn(Less, Nat)
  BY NatLessThanWellFounded, Zenon DEF Less
<1>2. \A x, y \in Nat : x < y => << x, y >> \in Less
  BY Zenon DEF OpToRel, Less
<1> HIDE DEF Less
<1>3. PICK x \in T : \A y \in T : ~(<< y, x >> \in Less)
  BY <1>1, WFMin, Zenon
<1>4. \A y \in T : ~(y < x)
  BY <1>2, <1>3
<1> QED BY <1>4, <1>3

\* The separators, what an editor types for a value, and the tokens of texts.
Equals == "="

Semicolon == ";"

Word == "text"

Tokens == STRING \cup {Equals, Semicolon, Word}

\* They are tokens, and differ.
LEMMA Separators ==
  Equals \in Tokens /\ Semicolon \in Tokens /\ Word \in Tokens /\ Equals # Semicolon
<1>1. "=" # ";"
  BY Zenon
<1> QED BY <1>1, Zenon DEF Equals, Semicolon, Tokens

\* Sequences of a set's elements are sequences of a larger set's.
LEMMA LargerSeq == \A S, T : S \subseteq T => Seq(S) \subseteq Seq(T)
  OBVIOUS

\* Sequences are the same when their elements are.
LEMMA SameSeq ==
  ASSUME NEW S, NEW s \in Seq(S), NEW t \in Seq(S), Len(s) = Len(t),
         \A i \in 1 .. Len(s) : s[i] = t[i]
  PROVE  s = t
  OBVIOUS

\* What is typed is made of tokens.
LEMMA TextsOfTokens == Seq(STRING) \subseteq Seq(Tokens)
<1>1. STRING \subseteq Tokens
  BY Zenon DEF Tokens
<1> QED BY <1>1, LargerSeq, Zenon

\* KeyOf and ValueOf, with the separators by their names.
LEMMA KeyOfIs == \A l : KeyOf(l) = Substr(l, 0, FindFirstOf(l, Equals))
  BY Zenon DEF KeyOf, Equals

LEMMA ValueOfIs ==
  \A l : ValueOf(l) = Substr(l, Wrapped(FindFirstOf(l, Equals) + 1),
                            Wrapped(FindFirstOf(l, Semicolon) - FindFirstOf(l, Equals) - 1))
  BY Zenon DEF ValueOf, Equals, Semicolon

\* What parse and outputfile agree on: a value is a text of at least one token
\* that ends nowhere before its end.
IsValue(v) == v \in Seq(Tokens) /\ v # <<>> /\ Len(v) + 3 < Size

Endless(v) == \A n \in DOMAIN v : v[n] # Semicolon

\* The line outputfile writes.
LineFor(key, v) == << key, Equals >> \o v \o << Semicolon >>

\* The first position of a token is where no earlier one is.
LEMMA FirstIs ==
  ASSUME NEW text \in Seq(Tokens), NEW token, NEW n \in 1 .. Len(text),
         text[n] = token, \A m \in 1 .. n - 1 : text[m] # token
  PROVE  FindFirstOf(text, token) = n - 1
<1> DEFINE I == {m \in 1 .. Len(text) : text[m] = token}
<1>1. n \in I /\ \A m \in I : n <= m
  OBVIOUS
<1> DEFINE first == CHOOSE k \in I : \A m \in I : k <= m
<1>2. first \in I /\ \A m \in I : first <= m
  BY <1>1
<1>3. first = n
  BY <1>1, <1>2
<1>4. I = {m \in DOMAIN text : text[m] = token} /\ I # {}
  BY <1>1
<1>5. FindFirstOf(text, token) = first - 1
  BY <1>4, Zenon DEF FindFirstOf
<1> QED BY <1>3, <1>5

\* Where it is not found it is at npos.
LEMMA NoneIs ==
  ASSUME NEW text \in Seq(Tokens), NEW token, \A m \in 1 .. Len(text) : text[m] # token
  PROVE  FindFirstOf(text, token) = Npos
  BY DEF FindFirstOf

\* What a line of outputfile is made of.
LEMMA LineIs ==
  ASSUME NEW key \in Tokens, NEW v \in Seq(Tokens)
  PROVE  /\ LineFor(key, v) \in Seq(Tokens) /\ Len(LineFor(key, v)) = Len(v) + 3
         /\ LineFor(key, v)[1] = key /\ LineFor(key, v)[2] = Equals
         /\ \A n \in 1 .. Len(v) : LineFor(key, v)[n + 2] = v[n]
         /\ LineFor(key, v)[Len(v) + 3] = Semicolon
         /\ LineFor(key, v) # <<>> /\ Head(LineFor(key, v)) = key
  BY Separators DEF LineFor

\* parse finds in it the key and the value it was made of, whatever separators
\* the value has before its end.
LEMMA ParseLine ==
  ASSUME NEW key \in Tokens, key # Equals, key # Semicolon, NEW v, IsValue(v), Endless(v)
  PROVE  /\ KeyOf(LineFor(key, v)) = << key >>
         /\ ValueOf(LineFor(key, v)) = v
         /\ Parses(LineFor(key, v))
<1> DEFINE l == LineFor(key, v)
<1>0. /\ v \in Seq(Tokens) /\ Len(v) \in Nat /\ Len(v) > 0 /\ Len(v) + 3 < Size /\ Size \in Nat
  BY SizeAssumption DEF IsValue
<1>1. /\ l \in Seq(Tokens) /\ Len(l) = Len(v) + 3 /\ l[1] = key /\ l[2] = Equals
      /\ \A n \in 1 .. Len(v) : l[n + 2] = v[n]
      /\ l[Len(v) + 3] = Semicolon
  BY <1>0, LineIs, Separators
<1> HIDE DEF l
<1>2. FindFirstOf(l, Equals) = 1
  <2>1. 2 \in 1 .. Len(l) /\ \A m \in 1 .. 2 - 1 : l[m] # Equals
    BY <1>0, <1>1
  <2>2. FindFirstOf(l, Equals) = 2 - 1
    BY <2>1, <1>1, FirstIs
  <2> QED BY <2>2
<1>3. FindFirstOf(l, Semicolon) = Len(v) + 2
  <2>1. \A m \in 1 .. Len(v) + 2 : l[m] # Semicolon
    <3> SUFFICES ASSUME NEW m \in 1 .. Len(v) + 2 PROVE l[m] # Semicolon
      OBVIOUS
    <3>1. CASE m \in {1, 2}
      BY <3>1, <1>1, Separators
    <3>2. CASE m > 2
      <4>1. m - 2 \in 1 .. Len(v) /\ l[(m - 2) + 2] = v[m - 2]
        BY <3>2, <1>0, <1>1
      <4> QED BY <4>1, <1>0 DEF Endless
    <3> QED BY <3>1, <3>2
  <2>2. Len(v) + 3 \in 1 .. Len(l)
    BY <1>0, <1>1
  <2>3. \A m \in 1 .. (Len(v) + 3) - 1 : l[m] # Semicolon
    BY <2>1, <1>0
  <2>4. FindFirstOf(l, Semicolon) = (Len(v) + 3) - 1
    BY <2>2, <2>3, <1>1, FirstIs
  <2> QED BY <2>4, <1>0
<1>4. KeyOf(l) = << key >>
  <2>1. KeyOf(l) = Substr(l, 0, 1)
    BY <1>2, KeyOfIs
  <2>2. Substr(l, 0, 1) = SubSeq(l, 1, 1)
    BY <1>0, <1>1 DEF Substr
  <2>3. SubSeq(l, 1, 1) = << key >>
    <3>1. /\ SubSeq(l, 1, 1) \in Seq(Tokens) /\ Len(SubSeq(l, 1, 1)) = 1 /\ SubSeq(l, 1, 1)[1] = key
      BY <1>0, <1>1
    <3>2. << key >> \in Seq(Tokens) /\ Len(<< key >>) = 1 /\ << key >>[1] = key
      OBVIOUS
    <3>3. \A i \in 1 .. Len(SubSeq(l, 1, 1)) : SubSeq(l, 1, 1)[i] = << key >>[i]
      BY <3>1, <3>2
    <3> QED BY <3>1, <3>2, <3>3, SameSeq
  <2> QED BY <2>1, <2>2, <2>3
<1>5. ValueOf(l) = v
  <2>1. Wrapped(2) = 2 /\ Wrapped(Len(v)) = Len(v)
    BY <1>0 DEF Wrapped
  <2>2. ValueOf(l) = Substr(l, 2, Len(v))
    <3>1. ValueOf(l) = Substr(l, Wrapped(1 + 1), Wrapped((Len(v) + 2 - 1) - 1))
      BY <1>2, <1>3, ValueOfIs
    <3>2. 1 + 1 = 2 /\ (Len(v) + 2 - 1) - 1 = Len(v)
      BY <1>0
    <3> QED BY <3>1, <3>2, <2>1
  <2>3. Substr(l, 2, Len(v)) = SubSeq(l, 3, Len(v) + 2)
    BY <1>0, <1>1 DEF Substr
  <2>4. SubSeq(l, 3, Len(v) + 2) = v
    BY <1>0, <1>1
  <2> QED BY <2>2, <2>3, <2>4
<1>6. Parses(l)
  BY <1>0, <1>4, <1>5 DEF Parses
<1> QED BY <1>4, <1>5, <1>6 DEF l

\* A key is the beginning of its line.
LEMMA KeyBegins ==
  ASSUME NEW text \in Seq(Tokens), NEW key, KeyOf(text) = << key >>
  PROVE  text # <<>> /\ Head(text) = key
<1> DEFINE n == FindFirstOf(text, Equals)
           last == IF n > Len(text) - 0 THEN Len(text) ELSE 0 + n
<1>1. << key >> = SubSeq(text, 0 + 1, last)
  BY KeyOfIs, Zenon DEF Substr
<1>2. n \in Int
  <2>1. CASE \A m \in 1 .. Len(text) : text[m] # Equals
    BY <2>1, NoneIs, SizeAssumption DEF Npos
  <2>2. CASE \E m \in 1 .. Len(text) : text[m] = Equals
    <3> DEFINE I == {m \in 1 .. Len(text) : text[m] = Equals}
    <3>1. I # {} /\ I \subseteq Nat
      BY <2>2
    <3>2. PICK m \in I : \A k \in I : m <= k
      BY <3>1, LeastOf
    <3>3. n = m - 1
      BY <3>2, FirstIs
    <3> QED BY <3>3, <3>2
  <2> QED BY <2>1, <2>2
<1> HIDE DEF n
<1>3. last \in Int /\ last <= Len(text)
  BY <1>2
<1> HIDE DEF last
<1>4. Len(SubSeq(text, 0 + 1, last)) = 1 /\ SubSeq(text, 0 + 1, last)[1] = key
  <2>1. Len(<< key >>) = 1 /\ << key >>[1] = key
    OBVIOUS
  <2> QED BY <1>1, <2>1, Zenon
<1>5. last = 1 /\ text[1] = key
  BY <1>3, <1>4
<1> QED BY <1>3, <1>5

-----------------------------------------------------------------------------
(* Tables and dialogues *)

\* An entry of a table, and a line typed.
IsEntry(e) ==
  /\ e.key \in Tokens /\ e.key # Equals /\ e.key # Semicolon
  /\ IsValue(e.default) /\ Endless(e.default)

IsTyped(l) == l \in Seq(Tokens) /\ Len(l) + 3 < Size

\* What the assumptions say of the elements of a table.
LEMMA TablesAre ==
  \A t \in DOMAIN Tables : \A f \in CfgFiles :
    /\ Tables[t][f] \in Seq([key : STRING, default : Seq(STRING) \ {<<>>}])
    /\ \A i \in DOMAIN Tables[t][f] :
         /\ Tables[t][f][i].key # Equals /\ Tables[t][f][i].key # Semicolon
         /\ Endless(Tables[t][f][i].default)
         /\ \A j \in DOMAIN Tables[t][f] : Tables[t][f][i].key = Tables[t][f][j].key => i = j
         /\ Len(Tables[t][f][i].default) + 3 < Size
<1> SUFFICES ASSUME NEW t \in DOMAIN Tables, NEW f \in CfgFiles
             PROVE  /\ Tables[t][f] \in Seq([key : STRING, default : Seq(STRING) \ {<<>>}])
                    /\ \A i \in DOMAIN Tables[t][f] :
                         /\ Tables[t][f][i].key # Equals /\ Tables[t][f][i].key # Semicolon
                         /\ Endless(Tables[t][f][i].default)
                         /\ \A j \in DOMAIN Tables[t][f] :
                              Tables[t][f][i].key = Tables[t][f][j].key => i = j
                         /\ Len(Tables[t][f][i].default) + 3 < Size
  OBVIOUS
<1>1. Tables[t] \in [CfgFiles -> Seq([key : STRING, default : Seq(STRING) \ {<<>>}])]
  BY TablesAssumption, Zenon
<1>2. Tables[t][f] \in Seq([key : STRING, default : Seq(STRING) \ {<<>>}])
  BY <1>1, Zenon
<1>3. \A i \in DOMAIN Tables[t][f] :
        /\ Tables[t][f][i].key \notin {"=", ";"}
        /\ \A n \in DOMAIN Tables[t][f][i].default : Tables[t][f][i].default[n] # ";"
        /\ \A j \in DOMAIN Tables[t][f] : Tables[t][f][i].key = Tables[t][f][j].key => i = j
  BY TablesAssumption, Zenon
<1>4. \A i \in DOMAIN Tables[t][f] :
        /\ Tables[t][f][i].key # Equals /\ Tables[t][f][i].key # Semicolon
        /\ Endless(Tables[t][f][i].default)
        /\ \A j \in DOMAIN Tables[t][f] : Tables[t][f][i].key = Tables[t][f][j].key => i = j
  BY <1>3, Zenon DEF Equals, Semicolon, Endless
<1>5. \A i \in DOMAIN Tables[t][f] : Len(Tables[t][f][i].default) + 3 < Size
  BY LinesAssumption, Zenon
<1> QED BY <1>2, <1>4, <1>5, Zenon

\* The elements of a sequence are of its set.
LEMMA ElementsOf ==
  ASSUME NEW S, NEW s \in Seq(S)
  PROVE  /\ Len(s) \in Nat /\ DOMAIN s = 1 .. Len(s)
         /\ \A i \in DOMAIN s : s[i] \in S
  OBVIOUS

\* The table of a dialogue.
LEMMA TableIs ==
  ASSUME dialogue \in Dialogues, NEW f \in CfgFiles
  PROVE  /\ Len(Table[f]) \in Nat /\ DOMAIN Table[f] = 1 .. Len(Table[f])
         /\ \A i \in DOMAIN Table[f] :
              /\ IsEntry(Table[f][i])
              /\ \A j \in DOMAIN Table[f] : Table[f][i].key = Table[f][j].key => i = j
<1> DEFINE T == Tables[dialogue.table][f]
<1>1. dialogue.table \in DOMAIN Tables
  BY DialoguesAssumption, Zenon
<1>2. /\ T \in Seq([key : STRING, default : Seq(STRING) \ {<<>>}])
      /\ \A i \in DOMAIN T :
           /\ T[i].key # Equals /\ T[i].key # Semicolon
           /\ Endless(T[i].default)
           /\ \A j \in DOMAIN T : T[i].key = T[j].key => i = j
           /\ Len(T[i].default) + 3 < Size
  BY <1>1, TablesAre, Zenon
<1>3. T = Table[f]
  BY Zenon DEF Table
<1> HIDE DEF T
<1>4. /\ Len(T) \in Nat /\ DOMAIN T = 1 .. Len(T)
      /\ \A i \in DOMAIN T : T[i] \in [key : STRING, default : Seq(STRING) \ {<<>>}]
  BY <1>2, ElementsOf, Zenon
<1>5. \A i \in DOMAIN T : IsEntry(T[i])
  <2> SUFFICES ASSUME NEW i \in DOMAIN T PROVE IsEntry(T[i])
    OBVIOUS
  <2>1. T[i].key \in STRING /\ T[i].default \in Seq(STRING) /\ T[i].default # <<>>
    BY <1>4, Zenon
  <2>2. T[i].key \in Tokens
    BY <2>1, Zenon DEF Tokens
  <2>3. T[i].default \in Seq(Tokens)
    BY <2>1, TextsOfTokens, Zenon
  <2> QED BY <2>1, <2>2, <2>3, <1>2, Zenon DEF IsEntry, IsValue
<1> QED BY <1>2, <1>3, <1>4, <1>5, Zenon

\* What is typed.
LEMMA DialogueIs ==
  ASSUME dialogue \in Dialogues
  PROVE  /\ dialogue.mode \in {1, 2, 3} /\ dialogue.cut \in BOOLEAN
         /\ Len(dialogue.lines) \in Nat /\ DOMAIN dialogue.lines = 1 .. Len(dialogue.lines)
         /\ dialogue.lines \in Seq(Seq(Tokens))
         /\ \A n \in DOMAIN dialogue.lines : IsTyped(dialogue.lines[n])
<1>1. /\ dialogue.mode \in Modes /\ dialogue.lines \in Seq(Seq(STRING)) /\ dialogue.cut \in BOOLEAN
      /\ \A n \in DOMAIN dialogue.lines : Len(dialogue.lines[n]) + 3 < Size
  BY DialoguesAssumption, LinesAssumption, Zenon
<1>2. Seq(Seq(STRING)) \subseteq Seq(Seq(Tokens))
  BY TextsOfTokens, LargerSeq, Zenon
<1>3. dialogue.lines \in Seq(Seq(Tokens))
  BY <1>1, <1>2, Zenon
<1>4. /\ Len(dialogue.lines) \in Nat /\ DOMAIN dialogue.lines = 1 .. Len(dialogue.lines)
      /\ \A n \in DOMAIN dialogue.lines : dialogue.lines[n] \in Seq(Tokens)
  BY <1>3, ElementsOf, Zenon
<1>5. Modes = {1, 2, 3}
  BY DEF Modes
<1> QED BY <1>1, <1>3, <1>4, <1>5, Zenon DEF IsTyped

-----------------------------------------------------------------------------
(* Questions *)

\* A sequence of elements of E, none of them twice.
Once(s, E) == s \in Seq(E) /\ \A i, j \in DOMAIN s : s[i] = s[j] => i = j

\* Joined to one of other elements it has none twice either.
LEMMA OnceJoined ==
  ASSUME NEW E, NEW F, NEW s, NEW t, Once(s, E), Once(t, F), E \cap F = {}
  PROVE  Once(s \o t, E \cup F)
<1>1. /\ s \in Seq(E \cup F) /\ t \in Seq(E \cup F)
      /\ Len(s) \in Nat /\ Len(t) \in Nat /\ DOMAIN s = 1 .. Len(s) /\ DOMAIN t = 1 .. Len(t)
      /\ \A i \in 1 .. Len(s) : s[i] \in E
      /\ \A i \in 1 .. Len(t) : t[i] \in F
  BY DEF Once
<1> DEFINE u == s \o t
<1>2. /\ u \in Seq(E \cup F) /\ Len(u) = Len(s) + Len(t) /\ DOMAIN u = 1 .. Len(s) + Len(t)
      /\ \A i \in 1 .. Len(s) : u[i] = s[i]
      /\ \A i \in 1 .. Len(s) + Len(t) : i > Len(s) => u[i] = t[i - Len(s)]
  BY <1>1
<1> HIDE DEF u
<1>3. \A i, j \in 1 .. Len(s) + Len(t) : u[i] = u[j] => i = j
  <2> SUFFICES ASSUME NEW i \in 1 .. Len(s) + Len(t), NEW j \in 1 .. Len(s) + Len(t), u[i] = u[j]
               PROVE  i = j
    OBVIOUS
  <2>1. CASE i <= Len(s) /\ j <= Len(s)
    BY <2>1, <1>1, <1>2, SMTT(20) DEF Once
  <2>2. CASE i > Len(s) /\ j > Len(s)
    <3>1. i - Len(s) \in 1 .. Len(t) /\ j - Len(s) \in 1 .. Len(t)
      BY <2>2, <1>1
    <3>2. t[i - Len(s)] = t[j - Len(s)]
      BY <2>2, <1>2
    <3>3. i - Len(s) = j - Len(s)
      BY <3>1, <3>2, <1>1 DEF Once
    <3> QED BY <3>3, <1>1
  <2>3. CASE i <= Len(s) /\ j > Len(s)
    <3>1. j - Len(s) \in 1 .. Len(t)
      BY <2>3, <1>1
    <3>2. u[i] \in E /\ u[j] \in F
      BY <3>1, <2>3, <1>1, <1>2
    <3> QED BY <3>2
  <2>4. CASE i > Len(s) /\ j <= Len(s)
    <3>1. i - Len(s) \in 1 .. Len(t)
      BY <2>4, <1>1
    <3>2. u[i] \in F /\ u[j] \in E
      BY <3>1, <2>4, <1>1, <1>2
    <3> QED BY <3>2
  <2> QED BY <2>1, <2>2, <2>3, <2>4, <1>1
<1>4. \A i, j \in DOMAIN u : u[i] = u[j] => i = j
  BY <1>2, <1>3
<1>5. Once(u, E \cup F)
  BY <1>2, <1>4, Zenon DEF Once
<1> QED BY <1>5, Zenon DEF u

Question(f, i) == [file |-> f, item |-> i]

QuestionsOf(f) == {Question(f, i) : i \in DOMAIN Table[f]}

QuestionsFor(f, key) == {Question(f, i) : i \in ItemsOf(f, key)}

\* Questions differ when their files or their items do.
LEMMA SameQuestion ==
  \A f, g, i, j : Question(f, i) = Question(g, j) => f = g /\ i = j
  BY DEF Question

\* takeio() asks for every item of a file once.
LEMMA AllOfOnce ==
  ASSUME dialogue \in Dialogues, NEW f \in CfgFiles
  PROVE  Once(AllOf(f), QuestionsOf(f))
<1>1. Len(Table[f]) \in Nat /\ DOMAIN Table[f] = 1 .. Len(Table[f])
  BY TableIs
<1>2. AllOf(f) = [i \in 1 .. Len(Table[f]) |-> Question(f, i)]
  BY <1>1, Zenon DEF AllOf, Question
<1>3. \A i \in 1 .. Len(Table[f]) : Question(f, i) \in QuestionsOf(f)
  BY <1>1 DEF QuestionsOf
<1>4. AllOf(f) \in Seq(QuestionsOf(f))
  BY <1>1, <1>2, <1>3
<1>5. \A i, j \in DOMAIN AllOf(f) : AllOf(f)[i] = AllOf(f)[j] => i = j
  BY <1>2, SameQuestion
<1> QED BY <1>4, <1>5 DEF Once

\* takeio(key) asks for one item, or none.
LEMMA OneOnce ==
  ASSUME NEW f, NEW key
  PROVE  Once(One(f, key), QuestionsFor(f, key))
<1>1. CASE ItemsOf(f, key) = {}
  BY <1>1 DEF One, Once
<1>2. CASE ItemsOf(f, key) # {}
  <2> DEFINE i == CHOOSE i \in ItemsOf(f, key) : TRUE
  <2>1. i \in ItemsOf(f, key)
    BY <1>2
  <2>2. One(f, key) = << Question(f, i) >>
    BY <1>2, Zenon DEF One, Question
  <2> HIDE DEF i
  <2>3. Question(f, i) \in QuestionsFor(f, key)
    BY <2>1 DEF QuestionsFor
  <2> QED BY <2>2, <2>3 DEF Once
<1> QED BY <1>1, <1>2

\* Questions about different files or different keys are different.
LEMMA OtherQuestions ==
  /\ \A f, g : f # g => QuestionsOf(f) \cap QuestionsOf(g) = {}
  /\ \A f, g, key, other :
       f # g \/ key # other => QuestionsFor(f, key) \cap QuestionsFor(g, other) = {}
<1>1. \A f, g : f # g => QuestionsOf(f) \cap QuestionsOf(g) = {}
  BY SameQuestion DEF QuestionsOf
<1>2. \A f, g, key, other :
        f # g \/ key # other => QuestionsFor(f, key) \cap QuestionsFor(g, other) = {}
  <2> SUFFICES ASSUME NEW f, NEW g, NEW key, NEW other, f # g \/ key # other,
                      NEW q \in QuestionsFor(f, key), q \in QuestionsFor(g, other)
               PROVE  FALSE
    OBVIOUS
  <2>1. PICK i \in ItemsOf(f, key) : q = Question(f, i)
    BY DEF QuestionsFor
  <2>2. PICK j \in ItemsOf(g, other) : q = Question(g, j)
    BY DEF QuestionsFor
  <2>3. Question(f, i) = Question(g, j)
    BY <2>1, <2>2, Zenon
  <2>5. f = g /\ i = j
    BY <2>3, SameQuestion, SMT
  <2>4. key = other
    BY <2>1, <2>2, <2>5, Zenon DEF ItemsOf
  <2> QED BY <2>4, <2>5, Zenon
<1> QED BY <1>1, <1>2

\* No question is asked twice.
LEMMA AskedOnce ==
  ASSUME dialogue \in Dialogues
  PROVE  Once(Questions(dialogue.mode), UNION {QuestionsOf(f) : f \in CfgFiles})
<1> DEFINE E == UNION {QuestionsOf(f) : f \in CfgFiles}
<1>0. dialogue.mode \in {1, 2, 3}
  BY DialogueIs
<1>1. ASSUME NEW s, NEW F, Once(s, F), F \subseteq E PROVE Once(s, E)
  <2>1. Seq(F) \subseteq Seq(E)
    BY <1>1, LargerSeq, Zenon
  <2> QED BY <1>1, <2>1, Zenon DEF Once
<1>2. CASE dialogue.mode = 1
  <2> DEFINE A == QuestionsOf("pulsar")
             B == QuestionsOf("observatory")
             C == QuestionsOf("project")
             D == QuestionsOf("scan")
  <2>1. /\ Once(AllOf("pulsar"), A) /\ Once(AllOf("observatory"), B)
        /\ Once(AllOf("project"), C) /\ Once(AllOf("scan"), D)
    BY AllOfOnce DEF CfgFiles
  <2>2. A \cap B = {} /\ (A \cup B) \cap C = {} /\ (A \cup B \cup C) \cap D = {}
    <3>1. A \cap B = {} /\ A \cap C = {} /\ A \cap D = {} /\ B \cap C = {} /\ B \cap D = {} /\ C \cap D = {}
      BY OtherQuestions
    <3> HIDE DEF A, B, C, D
    <3> QED BY <3>1
  <2>3. A \cup B \cup C \cup D \subseteq E
    BY DEF CfgFiles
  <2> HIDE DEF A, B, C, D
  <2>4. Once(AllOf("pulsar") \o AllOf("observatory"), A \cup B)
    BY <2>1, <2>2, OnceJoined
  <2>5. Once(AllOf("pulsar") \o AllOf("observatory") \o AllOf("project"), A \cup B \cup C)
    BY <2>1, <2>2, <2>4, OnceJoined
  <2>6. Once(AllQuestions, A \cup B \cup C \cup D)
    BY <2>1, <2>2, <2>5, OnceJoined DEF AllQuestions
  <2>7. Questions(1) = AllQuestions
    BY DEF Questions
  <2> QED BY <2>3, <2>6, <2>7, <1>1, <1>2, Zenon
<1>3. CASE dialogue.mode = 2
  <2> DEFINE A == QuestionsFor("pulsar", "RA")
             B == QuestionsFor("pulsar", "DEC")
             C == QuestionsFor("scan", "SRC_NAME")
             D == QuestionsFor("scan", "NUMCHANS")
             F == QuestionsFor("scan", "NPOL")
  <2>1. /\ Once(One("pulsar", "RA"), A) /\ Once(One("pulsar", "DEC"), B)
        /\ Once(One("scan", "SRC_NAME"), C) /\ Once(One("scan", "NUMCHANS"), D)
        /\ Once(One("scan", "NPOL"), F)
    BY OneOnce
  <2>2. /\ A \cap B = {} /\ (A \cup B) \cap C = {} /\ (A \cup B \cup C) \cap D = {}
        /\ (A \cup B \cup C \cup D) \cap F = {}
    <3>1. A \cap B = {}
      BY OtherQuestions
    <3>2. A \cap C = {} /\ A \cap D = {} /\ A \cap F = {} /\ B \cap C = {} /\ B \cap D = {} /\ B \cap F = {}
      BY OtherQuestions
    <3>3. C \cap D = {} /\ C \cap F = {} /\ D \cap F = {}
      BY OtherQuestions
    <3> HIDE DEF A, B, C, D, F
    <3> QED BY <3>1, <3>2, <3>3
  <2>3. A \cup B \cup C \cup D \cup F \subseteq E
    <3>1. \A f, key : QuestionsFor(f, key) \subseteq QuestionsOf(f)
      BY DEF QuestionsFor, QuestionsOf, ItemsOf
    <3>2. "pulsar" \in CfgFiles /\ "scan" \in CfgFiles
      BY DEF CfgFiles
    <3> QED BY <3>1, <3>2
  <2> HIDE DEF A, B, C, D, F
  <2>4. Once(One("pulsar", "RA") \o One("pulsar", "DEC"), A \cup B)
    BY <2>1, <2>2, OnceJoined
  <2>5. Once(One("pulsar", "RA") \o One("pulsar", "DEC") \o One("scan", "SRC_NAME"), A \cup B \cup C)
    BY <2>1, <2>2, <2>4, OnceJoined
  <2>6. Once(One("pulsar", "RA") \o One("pulsar", "DEC") \o One("scan", "SRC_NAME")
               \o One("scan", "NUMCHANS"), A \cup B \cup C \cup D)
    BY <2>1, <2>2, <2>5, OnceJoined
  <2>7. Once(MinimalQuestions, A \cup B \cup C \cup D \cup F)
    BY <2>1, <2>2, <2>6, OnceJoined DEF MinimalQuestions
  <2>8. Questions(2) = MinimalQuestions
    BY DEF Questions
  <2> QED BY <2>3, <2>7, <2>8, <1>1, <1>3, Zenon
<1>4. CASE dialogue.mode = 3
  <2>1. Questions(3) = <<>>
    BY DEF Questions
  <2> HIDE DEF E
  <2>2. << >> \in Seq(E) /\ \A i \in DOMAIN << >> : FALSE
    OBVIOUS
  <2>3. Once(<< >>, E)
    BY <2>2, Zenon DEF Once
  <2>4. Once(Questions(dialogue.mode), E)
    BY <2>1, <2>3, <1>4, Zenon
  <2> QED BY <2>4 DEF E
<1> QED BY <1>0, <1>2, <1>3, <1>4

\* The questions of a dialogue, each of them about an item of its own.
LEMMA QuestionsAre ==
  ASSUME dialogue \in Dialogues
  PROVE  LET Q == Questions(dialogue.mode) IN
         /\ Len(Q) \in Nat /\ DOMAIN Q = 1 .. Len(Q)
         /\ \A q \in DOMAIN Q :
              /\ Q[q].file \in CfgFiles /\ Q[q].item \in DOMAIN Table[Q[q].file]
              /\ Q[q] = Question(Q[q].file, Q[q].item)
              /\ \A r \in DOMAIN Q : Q[q].file = Q[r].file /\ Q[q].item = Q[r].item => q = r
<1> DEFINE Q == Questions(dialogue.mode)
           E == UNION {QuestionsOf(f) : f \in CfgFiles}
<1>1. Q \in Seq(E) /\ \A i, j \in DOMAIN Q : Q[i] = Q[j] => i = j
  BY AskedOnce, Zenon DEF Once
<1> HIDE DEF Q
<1>2. Len(Q) \in Nat /\ DOMAIN Q = 1 .. Len(Q) /\ \A q \in DOMAIN Q : Q[q] \in E
  BY <1>1, ElementsOf, Zenon
<1>3. ASSUME NEW q \in DOMAIN Q
      PROVE  /\ Q[q].file \in CfgFiles /\ Q[q].item \in DOMAIN Table[Q[q].file]
             /\ Q[q] = Question(Q[q].file, Q[q].item)
  <2>1. PICK f \in CfgFiles : Q[q] \in QuestionsOf(f)
    BY <1>2, <1>3, Zenon
  <2>2. PICK i \in DOMAIN Table[f] : Q[q] = Question(f, i)
    BY <2>1, Zenon DEF QuestionsOf
  <2>3. Q[q].file = f /\ Q[q].item = i
    BY <2>2 DEF Question
  <2> QED BY <2>2, <2>3, Zenon
<1>4. \A q, r \in DOMAIN Q : Q[q].file = Q[r].file /\ Q[q].item = Q[r].item => q = r
  BY <1>1, <1>3, Zenon
<1> QED BY <1>2, <1>3, <1>4, Zenon DEF Q

-----------------------------------------------------------------------------
(* The inductive invariant *)

\* What is left of s when k elements are gone.
RestOf(s, k) == SubSeq(s, k + 1, Len(s))

\* What can be typed for a value.
TypedValues == {dialogue.lines[n] : n \in DOMAIN dialogue.lines} \ {<< >>}

\* The dialogue: every value is its default or a line typed, and the files are
\* written after the questions.
DialogueInv ==
  /\ dialogue \in Dialogues
  /\ filename = [f \in CfgFiles |-> << f >>]
  /\ asked \in 0 .. Len(Questions(dialogue.mode))
  /\ output \in 0 .. 4
  /\ output > 0 => asked = Len(Questions(dialogue.mode))
  /\ \E k \in 0 .. Len(dialogue.lines) : cin = RestOf(dialogue.lines, k)
  /\ line \in TypedValues \cup {<< >>}
  /\ DOMAIN kv = CfgFiles
  /\ \A f \in CfgFiles :
       /\ DOMAIN kv[f] = DOMAIN Table[f]
       /\ \A i \in DOMAIN Table[f] : kv[f][i] \in {Table[f][i].default} \cup TypedValues

\* As long as questions are asked, the line to be read is the answer to the next
\* one, and takeio() holds no line from before the end of the input.
AnswersInv ==
  output = 0 /\ (dialogue.mode # 1 \/ ~dialogue.cut) =>
    /\ cin = RestOf(dialogue.lines, asked)
    /\ ceof => asked >= Len(dialogue.lines)
    /\ dialogue.mode = 1 /\ ceof => line = << >>

\* The line for a key is the first of its file that begins with the key.
FirstFor(lines, key, v) ==
  \E n \in DOMAIN lines :
    /\ lines[n] = LineFor(key, v)
    /\ \A m \in 1 .. n - 1 : lines[m] = << >> \/ Head(lines[m]) # key

\* The disk: the files written so far, those not edited as they were written,
\* and in the others the lines of the keys not edited.
FileInv(f) ==
  /\ disk[<< f >>] \in Seq(Seq(Tokens))
  /\ Untouched(f) => disk[<< f >>] = LinesOf(f)
  /\ \A i \in DOMAIN Table[f] :
       << f, Table[f][i].key >> \notin edits => FirstFor(disk[<< f >>], Table[f][i].key, kv[f][i])

DiskInv ==
  /\ phase = "cfgen" => edits = {}
  /\ phase # "cfgen" => output = 4
  /\ DOMAIN disk = {<< FileOrder[n] >> : n \in 1 .. output}
  /\ \A f \in CfgFiles : << f >> \in DOMAIN disk => FileInv(f)

\* The command line: a string is the argument of the last of its options that
\* are handled.
GivenTo(s, k) == {n \in 1 .. k : args[n].opt = OptionOf[s]}

SettingInv(s) ==
  \/ GivenTo(s, optind) = {} /\ setting[s] = Default(s)
  \/ \E n \in GivenTo(s, optind) :
       (\A m \in GivenTo(s, optind) : m <= n) /\ setting[s] = args[n].arg

ArgInv ==
  /\ Len(args) \in Nat /\ DOMAIN args = 1 .. Len(args)
  /\ optind \in 0 .. Len(args)
  /\ DOMAIN setting = Strings
  /\ \A s \in Strings : SettingInv(s)
  /\ phase \in {"cfgen", "edit"} => optind = 0
  /\ phase \in {"load", "look"} \/ loads > 0 => optind = Len(args)

\* The lines of the file that is loaded for f, and how many of them are read.
LinesFor(f) == OnDisk(NameFor(f))

LinesRead(f) ==
  IF loading = f THEN numlines
  ELSE IF \E n \in 1 .. loads : LoadOrder[n] = f THEN Len(LinesFor(f)) ELSE 0

\* The keys of a map are those of the lines read, each with the value of the
\* first of its lines.
FirstOfKey(lines, n) ==
  /\ Parses(lines[n])
  /\ \A m \in 1 .. n - 1 : Parses(lines[m]) => KeyOf(lines[m]) # KeyOf(lines[n])

ReadInv(map, lines, k) ==
  /\ DOMAIN map = {KeyOf(lines[n]) : n \in {n \in 1 .. k : Parses(lines[n])}}
  /\ \A n \in 1 .. k : FirstOfKey(lines, n) => map[KeyOf(lines[n])] = ValueOf(lines[n])

\* Lines that load without a message.
Good(lines) ==
  \A n \in DOMAIN lines :
    Parses(lines[n]) /\ \A m \in DOMAIN lines : KeyOf(lines[n]) = KeyOf(lines[m]) => n = m

ClassInv(f) ==
  /\ ReadInv(data[f], LinesFor(f), LinesRead(f))
  /\ Good(LinesFor(f)) => \A m \in messages : m[2] # f

LoadInv ==
  /\ loads \in 0 .. 4
  /\ phase \in {"cfgen", "edit", "args"} => loads = 0
  /\ phase \in {"look", "end"} => loads = 0 \/ loads = 4
  /\ phase = "look" => loads = 4
  /\ loading # "none" => phase = "load" /\ loads > 0 /\ loading = LoadOrder[loads]
  /\ \A f \in CfgFiles : loading = f =>
       numlines \in 0 .. Len(LinesFor(f)) /\ unread = RestOf(LinesFor(f), numlines)
  /\ loads = 0 => messages = {}
  /\ DOMAIN data = CfgFiles
  /\ \A f \in CfgFiles : ClassInv(f)

\* Whether a lookup finds nothing is decided while they are made.
LookInv ==
  /\ looked \in Nat
  /\ phase \notin {"look", "end"} => outcome = "none"
  /\ FilesOfCfgenSuffice
  /\ phase = "look" => outcome = "none"

Inv == DialogueInv /\ AnswersInv /\ AnswersInOrder /\ DiskInv /\ ArgInv /\ LoadInv /\ LookInv

-----------------------------------------------------------------------------
(* The dialogue *)

\* What is left when another element is gone.
LEMMA RestIs ==
  ASSUME NEW S, NEW s \in Seq(S), NEW k \in 0 .. Len(s)
  PROVE  /\ RestOf(s, 0) = s /\ Len(RestOf(s, k)) = Len(s) - k
         /\ k = Len(s) => RestOf(s, k) = << >>
         /\ RestOf(s, k) = << >> => k = Len(s)
         /\ k < Len(s) => Head(RestOf(s, k)) = s[k + 1] /\ Tail(RestOf(s, k)) = RestOf(s, k + 1)
  BY DEF RestOf

\* A line got is one of those typed.
LEMMA GotIsTyped ==
  ASSUME DialogueInv, NEW old \in TypedValues \cup {<< >>}
  PROVE  Got(old) \in TypedValues \cup {<< >>}
<1>0. DOMAIN dialogue.lines = 1 .. Len(dialogue.lines) /\ dialogue.lines \in Seq(Seq(Tokens))
  BY DialogueIs DEF DialogueInv
<1>1. PICK k \in 0 .. Len(dialogue.lines) : cin = RestOf(dialogue.lines, k)
  BY DEF DialogueInv
<1>2. CASE ceof \/ cin = << >>
  BY <1>2, Zenon DEF Got
<1>3. CASE ~ceof /\ cin # << >>
  <2>1. k < Len(dialogue.lines)
    BY <1>0, <1>1, <1>3, RestIs
  <2>2. k + 1 \in DOMAIN dialogue.lines
    BY <1>0, <2>1
  <2>4. Head(cin) = dialogue.lines[k + 1]
    BY <1>0, <1>1, <2>1, RestIs
  <2>3. Got(old) = Head(cin)
    BY <1>3, Zenon DEF Got
  <2> QED BY <2>2, <2>3, <2>4, Zenon DEF TypedValues
<1> QED BY <1>2, <1>3

\* getline leaves the end of what was typed.
LEMMA GetLineLeavesRest ==
  ASSUME DialogueInv, GetLine
  PROVE  \E k \in 0 .. Len(dialogue.lines) : cin' = RestOf(dialogue.lines, k)
<1>0. dialogue.lines \in Seq(Seq(Tokens))
  BY DialogueIs DEF DialogueInv
<1>1. PICK k \in 0 .. Len(dialogue.lines) : cin = RestOf(dialogue.lines, k)
  BY DEF DialogueInv
<1>2. CASE ceof \/ cin = << >>
  BY <1>1, <1>2, Zenon DEF GetLine
<1>3. CASE ~ceof /\ cin # << >>
  <2>1. k < Len(dialogue.lines)
    BY <1>0, <1>1, <1>3, RestIs
  <2>2. Tail(cin) = RestOf(dialogue.lines, k + 1) /\ k + 1 \in 0 .. Len(dialogue.lines)
    BY <1>0, <1>1, <2>1, RestIs
  <2>3. cin' = Tail(cin)
    BY <1>3, Zenon DEF GetLine
  <2> QED BY <2>2, <2>3, Zenon
<1> QED BY <1>2, <1>3

\* What the dialogue starts with.
LEMMA DialogueInit == GenInit => DialogueInv /\ AnswersInv /\ AnswersInOrder
<1> SUFFICES ASSUME GenInit PROVE DialogueInv /\ AnswersInv /\ AnswersInOrder
  OBVIOUS
<1>1. /\ dialogue \in Dialogues /\ cin = dialogue.lines /\ ceof = FALSE /\ line = << >>
      /\ asked = 0 /\ output = 0 /\ filename = [f \in CfgFiles |-> << f >>]
      /\ kv = [f \in CfgFiles |-> [i \in DOMAIN Table[f] |-> Table[f][i].default]]
  BY Zenon DEF GenInit
<1>2. dialogue.lines \in Seq(Seq(Tokens)) /\ Len(dialogue.lines) \in Nat
  BY <1>1, DialogueIs
<1>3. cin = RestOf(dialogue.lines, 0) /\ 0 \in 0 .. Len(dialogue.lines)
  BY <1>1, <1>2, RestIs
<1>4. Len(Questions(dialogue.mode)) \in Nat
  BY <1>1, QuestionsAre
<1>5. /\ asked \in 0 .. Len(Questions(dialogue.mode)) /\ output \in 0 .. 4 /\ ~(output > 0)
  BY <1>1, <1>4
<1>6. DialogueInv
  BY <1>1, <1>3, <1>5, Zenon DEF DialogueInv
<1>7. AnswersInv
  BY <1>1, <1>3, Zenon DEF AnswersInv
<1>8. \A n : n \notin 1 .. asked
  BY <1>1
<1>9. AnswersInOrder
  BY <1>1, <1>8, Zenon DEF AnswersInOrder
<1> QED BY <1>6, <1>7, <1>9

\* What a question is about, and what it leaves.
LEMMA TakeIoIs ==
  ASSUME DialogueInv, TakeIo
  PROVE  LET q == Questions(dialogue.mode)[asked + 1] IN
         /\ asked + 1 \in 1 .. Len(Questions(dialogue.mode)) /\ asked' = asked + 1
         /\ asked \in Nat /\ ~(output > 0)
         /\ q.file \in CfgFiles /\ q.item \in DOMAIN Table[q.file]
         /\ GetLine /\ line' = Got(Before(asked + 1))
         /\ dialogue' = dialogue /\ output' = output /\ disk' = disk /\ filename' = filename
         /\ DOMAIN kv' = CfgFiles
         /\ kv'[q.file][q.item] = IF line' = << >> THEN kv[q.file][q.item] ELSE line'
         /\ \A f \in CfgFiles :
              /\ DOMAIN kv'[f] = DOMAIN Table[f]
              /\ \A i \in DOMAIN Table[f] : ~(f = q.file /\ i = q.item) => kv'[f][i] = kv[f][i]
<1> DEFINE q == Questions(dialogue.mode)[asked + 1]
<1>1. /\ asked + 1 \in DOMAIN Questions(dialogue.mode) /\ asked' = asked + 1
      /\ GetLine /\ line' = Got(Before(asked + 1))
      /\ dialogue' = dialogue /\ output' = output /\ disk' = disk /\ filename' = filename
      /\ kv' = [kv EXCEPT ![q.file][q.item] = IF line' = << >> THEN @ ELSE line']
  BY Zenon DEF TakeIo
<1>2. /\ Len(Questions(dialogue.mode)) \in Nat
      /\ DOMAIN Questions(dialogue.mode) = 1 .. Len(Questions(dialogue.mode))
      /\ q.file \in CfgFiles /\ q.item \in DOMAIN Table[q.file]
  BY <1>1, QuestionsAre DEF DialogueInv
<1> HIDE DEF q
<1>3. /\ DOMAIN kv = CfgFiles /\ \A f \in CfgFiles : DOMAIN kv[f] = DOMAIN Table[f]
      /\ asked \in 0 .. Len(Questions(dialogue.mode))
      /\ output > 0 => asked = Len(Questions(dialogue.mode))
  BY DEF DialogueInv
<1>4. /\ DOMAIN kv' = CfgFiles
      /\ kv'[q.file][q.item] = IF line' = << >> THEN kv[q.file][q.item] ELSE line'
      /\ \A f \in CfgFiles :
           /\ DOMAIN kv'[f] = DOMAIN Table[f]
           /\ \A i \in DOMAIN Table[f] : ~(f = q.file /\ i = q.item) => kv'[f][i] = kv[f][i]
  BY <1>1, <1>2, <1>3
<1>5. asked + 1 \in 1 .. Len(Questions(dialogue.mode)) /\ asked \in Nat /\ ~(output > 0)
  BY <1>1, <1>2, <1>3
<1> QED BY <1>1, <1>2, <1>4, <1>5 DEF q

\* What takeio(key) and takeio() start a line with.
LEMMA BeforeIs ==
  ASSUME NEW q
  PROVE  /\ Before(q) \in {line, << >>}
         /\ dialogue.mode # 1 => Before(q) = << >>
  BY Zenon DEF Before

\* What depends on the dialogue only.
LEMMA SameDialogue ==
  ASSUME dialogue' = dialogue
  PROVE  /\ Table' = Table /\ TypedValues' = TypedValues
         /\ \A mode : Questions(mode)' = Questions(mode)
         /\ \A n : AnswerTo(n)' = AnswerTo(n)
<1>1. Table' = Table
  BY Zenon DEF Table
<1>2. TypedValues' = TypedValues
  BY Zenon DEF TypedValues
<1>3. \A n : AnswerTo(n)' = AnswerTo(n)
  BY Zenon DEF AnswerTo
<1>4. AllQuestions' = AllQuestions /\ MinimalQuestions' = MinimalQuestions
  <2>1. \A f : AllOf(f)' = AllOf(f)
    BY <1>1, Zenon DEF AllOf
  <2>2. \A f, key : ItemsOf(f, key)' = ItemsOf(f, key)
    BY <1>1, Zenon DEF ItemsOf
  <2>3. \A f, key : One(f, key)' = One(f, key)
    <3> DEFINE Pick(S) == CHOOSE i \in S : TRUE
    <3> SUFFICES ASSUME NEW f, NEW key PROVE One(f, key)' = One(f, key)
      OBVIOUS
    <3>1. /\ One(f, key)' = IF ItemsOf(f, key)' = {} THEN << >>
                             ELSE << [file |-> f, item |-> Pick(ItemsOf(f, key)')] >>
          /\ One(f, key) = IF ItemsOf(f, key) = {} THEN << >>
                            ELSE << [file |-> f, item |-> Pick(ItemsOf(f, key))] >>
      BY Zenon DEF One
    <3> HIDE DEF Pick
    <3>2. ItemsOf(f, key)' = ItemsOf(f, key)
      BY <2>2, Zenon
    <3> QED BY <3>1, <3>2, Zenon
  <2>4. AllQuestions' = AllQuestions
    BY <2>1 DEF AllQuestions
  <2> QED BY <2>3, <2>4 DEF MinimalQuestions
<1>5. \A mode : Questions(mode)' = Questions(mode)
  BY <1>4, Zenon DEF Questions
<1> QED BY <1>1, <1>2, <1>3, <1>5, Zenon

\* A question leaves every value a default or a line typed.
LEMMA DialogueTakeIo == DialogueInv /\ TakeIo => DialogueInv'
<1> SUFFICES ASSUME DialogueInv, TakeIo PROVE DialogueInv'
  OBVIOUS
<1> DEFINE Q == Questions(dialogue.mode)
           q == Q[asked + 1]
<1>1. /\ asked + 1 \in 1 .. Len(Q) /\ asked' = asked + 1 /\ asked \in Nat /\ ~(output > 0)
      /\ q.file \in CfgFiles /\ q.item \in DOMAIN Table[q.file]
      /\ GetLine /\ line' = Got(Before(asked + 1))
      /\ dialogue' = dialogue /\ output' = output /\ filename' = filename
      /\ DOMAIN kv' = CfgFiles
      /\ kv'[q.file][q.item] = IF line' = << >> THEN kv[q.file][q.item] ELSE line'
      /\ \A f \in CfgFiles :
           /\ DOMAIN kv'[f] = DOMAIN Table[f]
           /\ \A i \in DOMAIN Table[f] : ~(f = q.file /\ i = q.item) => kv'[f][i] = kv[f][i]
  BY TakeIoIs
<1>2. /\ Table' = Table /\ TypedValues' = TypedValues /\ Q' = Q
  BY <1>1, SameDialogue, Zenon
<1>3. \E k \in 0 .. Len(dialogue.lines) : cin' = RestOf(dialogue.lines, k)
  BY <1>1, GetLineLeavesRest
<1>4. Before(asked + 1) \in TypedValues \cup {<< >>}
  BY BeforeIs, Zenon DEF DialogueInv
<1>5. line' \in TypedValues \cup {<< >>}
  BY <1>1, <1>4, GotIsTyped
<1> HIDE DEF q, Q
<1>6. ASSUME NEW f \in CfgFiles, NEW i \in DOMAIN Table[f]
      PROVE  kv'[f][i] \in {Table[f][i].default} \cup TypedValues
  <2>0. kv[f][i] \in {Table[f][i].default} \cup TypedValues
    BY Zenon DEF DialogueInv
  <2>1. CASE f = q.file /\ i = q.item
    BY <2>0, <2>1, <1>1, <1>5, Zenon
  <2>2. CASE ~(f = q.file /\ i = q.item)
    BY <2>0, <2>2, <1>1, Zenon
  <2> QED BY <2>1, <2>2
<1>7. asked' \in 0 .. Len(Q) /\ ~(output' > 0) /\ output' \in 0 .. 4
  BY <1>1 DEF DialogueInv
<1>8. dialogue \in Dialogues /\ filename = [f \in CfgFiles |-> << f >>]
  BY DEF DialogueInv
<1>9. Questions(dialogue.mode)' = Q /\ asked' \in 0 .. Len(Questions(dialogue.mode)')
  BY <1>2, <1>7 DEF Q
<1> QED
  BY <1>1, <1>2, <1>3, <1>5, <1>6, <1>7, <1>8, <1>9, Zenon DEF DialogueInv

\* So does the writing of a file.
LEMMA DialogueOutputFile == DialogueInv /\ OutputFile => DialogueInv'
<1> SUFFICES ASSUME DialogueInv, OutputFile PROVE DialogueInv'
  OBVIOUS
<1> DEFINE Q == Questions(dialogue.mode)
           f == FileOrder[output + 1]
<1>1. /\ asked = Len(Q) /\ output < 4 /\ output' = output + 1
      /\ filename' = [filename EXCEPT ![f] = NewName(f, << >>)]
      /\ dialogue' = dialogue /\ line' = line /\ kv' = kv /\ asked' = asked
      /\ GetLine \/ (cin' = cin /\ ceof' = ceof)
  BY Zenon DEF OutputFile
<1>2. /\ Table' = Table /\ TypedValues' = TypedValues /\ Q' = Q
  BY <1>1, SameDialogue, Zenon
<1>3. filename' = filename
  <2>1. NewName(f, << >>) = filename[f]
    BY Zenon DEF NewName
  <2> HIDE DEF f
  <2>2. filename = [g \in CfgFiles |-> << g >>]
    BY DEF DialogueInv
  <2> QED BY <1>1, <2>1, <2>2
<1>4. output' \in 0 .. 4
  BY <1>1 DEF DialogueInv
<1>5. \E k \in 0 .. Len(dialogue.lines) : cin' = RestOf(dialogue.lines, k)
  <2>1. CASE GetLine
    BY <2>1, GetLineLeavesRest
  <2>2. CASE cin' = cin
    BY <2>2, Zenon DEF DialogueInv
  <2> QED BY <1>1, <2>1, <2>2
<1> QED
  BY <1>1, <1>2, <1>3, <1>4, <1>5, Zenon DEF DialogueInv

\* A question takes the line that answers it.
LEMMA AnswersTakeIo ==
  ASSUME DialogueInv, AnswersInv, TakeIo, dialogue.mode # 1 \/ ~dialogue.cut
  PROVE  /\ cin' = RestOf(dialogue.lines, asked + 1) \/ (cin' = << >> /\ asked >= Len(dialogue.lines))
         /\ ceof' => asked + 1 >= Len(dialogue.lines)
         /\ dialogue.mode = 1 /\ ceof' => line' = << >>
         /\ line' = AnswerTo(asked + 1)
<1> DEFINE L == dialogue.lines
           Before1 == Before(asked + 1)
<1>1. /\ L \in Seq(Seq(Tokens)) /\ Len(L) \in Nat /\ DOMAIN L = 1 .. Len(L)
      /\ dialogue.cut \in BOOLEAN
  BY DialogueIs DEF DialogueInv
<1>0. Len(L) \in Nat
  BY <1>1
<1>2. /\ asked \in Nat /\ ~(output > 0) /\ GetLine /\ line' = Got(Before1)
  BY TakeIoIs
<1>3. output = 0
  BY <1>2 DEF DialogueInv
<1>4. /\ cin = RestOf(L, asked)
      /\ ceof => asked >= Len(L)
      /\ dialogue.mode = 1 /\ ceof => line = << >>
  BY <1>3, Zenon DEF AnswersInv
<1>5. AnswerTo(asked + 1) = IF asked + 1 \in DOMAIN L THEN L[asked + 1] ELSE << >>
  BY Zenon DEF AnswerTo
<1>6. /\ cin' = IF ceof \/ cin = << >> THEN cin ELSE Tail(cin)
      /\ ceof' = (ceof \/ cin = << >> \/ (Len(cin) = 1 /\ dialogue.cut))
      /\ line' = IF ceof THEN Before1 ELSE IF cin = << >> THEN << >> ELSE Head(cin)
  BY <1>2, Zenon DEF GetLine, Got
<1> HIDE DEF L
<1>7. CASE ceof
  <2>1. Before1 = << >>
    BY <1>4, <1>7, BeforeIs, Zenon
  <2>2. asked >= Len(L) /\ cin = << >>
    <3>1. RestOf(L, asked) = << >>
      BY <1>1, <1>2, <1>4, <1>7 DEF RestOf
    <3> QED BY <3>1, <1>4, <1>7
  <2>3. asked + 1 \notin DOMAIN L /\ asked + 1 >= Len(L)
    BY <2>2, <1>1, <1>2
  <2> QED BY <2>1, <2>2, <2>3, <1>5, <1>6, <1>7, Zenon DEF L
<1>8. CASE ~ceof /\ cin = << >>
  <2>1. asked >= Len(L)
    <3>1. CASE asked < Len(L)
      <4>1. asked \in 0 .. Len(L)
        BY <3>1, <1>0, <1>2, SMTT(20)
      <4>2. RestOf(L, asked) = << >> => asked = Len(L)
        BY <4>1, <1>1, RestIs
      <4> QED BY <4>2, <3>1, <1>4, <1>8
    <3> QED BY <3>1, <1>0, <1>2
  <2>2. asked + 1 \notin DOMAIN L /\ asked + 1 >= Len(L)
    BY <2>1, <1>1, <1>2
  <2> QED BY <2>1, <2>2, <1>5, <1>6, <1>8, Zenon DEF L
<1>9. CASE ~ceof /\ cin # << >>
  <2>1. asked < Len(L)
    BY <1>1, <1>2, <1>4, <1>9 DEF RestOf
  <2>2. asked \in 0 .. Len(L) /\ asked + 1 \in DOMAIN L
    BY <2>1, <1>1, <1>2
  <2>3. Head(cin) = L[asked + 1] /\ Tail(cin) = RestOf(L, asked + 1)
    BY <2>1, <2>2, <1>1, <1>4, RestIs
  <2>4. Len(cin) = 1 => asked + 1 >= Len(L)
    <3>1. Len(cin) = Len(L) - asked
      BY <2>2, <1>1, <1>4, RestIs
    <3>2. asked \in Nat
      BY <1>2
    <3>3. \A a, b \in Nat : b - a = 1 => a + 1 >= b
      OBVIOUS
    <3>4. Len(cin) = 1 => Len(L) - asked = 1
      BY <3>1, Zenon
    <3> QED BY <3>2, <3>3, <3>4, <1>0, Zenon
  <2>5. ceof' = (Len(cin) = 1 /\ dialogue.cut)
    BY <1>1, <1>6, <1>9, Zenon
  <2>6. dialogue.mode = 1 => ~ceof'
    BY <2>5, Zenon
  <2>7. cin' = RestOf(L, asked + 1) /\ line' = AnswerTo(asked + 1)
    BY <2>2, <2>3, <1>5, <1>6, <1>9, Zenon
  <2> QED BY <2>4, <2>5, <2>6, <2>7, Zenon DEF L
<1> QED BY <1>7, <1>8, <1>9

\* The line to be read stays the answer to the next question.
LEMMA AnswersInvStep == DialogueInv /\ AnswersInv /\ GenStep => AnswersInv'
<1> SUFFICES ASSUME DialogueInv, AnswersInv, GenStep PROVE AnswersInv'
  OBVIOUS
<1>1. CASE TakeIo
  <2>1. dialogue' = dialogue /\ output' = output /\ asked' = asked + 1 /\ asked \in Nat
    BY <1>1, TakeIoIs
  <2>2. dialogue.lines \in Seq(Seq(Tokens)) /\ Len(dialogue.lines) \in Nat
    BY DialogueIs DEF DialogueInv
  <2>3. asked >= Len(dialogue.lines) => RestOf(dialogue.lines, asked + 1) = << >>
    BY <2>1, <2>2 DEF RestOf
  <2>4. SUFFICES ASSUME dialogue.mode # 1 \/ ~dialogue.cut
                 PROVE  /\ cin' = RestOf(dialogue.lines, asked + 1)
                        /\ ceof' => asked + 1 >= Len(dialogue.lines)
                        /\ dialogue.mode = 1 /\ ceof' => line' = << >>
    BY <2>1, Zenon DEF AnswersInv
  <2> QED BY <2>3, <2>4, <1>1, AnswersTakeIo, Zenon
<1>2. CASE OutputFile
  <2>1. output' = output + 1 /\ output \in 0 .. 4
    BY <1>2, Zenon DEF OutputFile, DialogueInv
  <2>2. output' # 0
    BY <2>1
  <2> QED BY <2>2, Zenon DEF AnswersInv
<1> QED BY <1>1, <1>2, Zenon DEF GenStep

\* The questions asked before keep their answers, and the value of the one asked
\* now was its default.
LEMMA InOrderTakeIo ==
  DialogueInv /\ AnswersInv /\ AnswersInOrder /\ TakeIo => AnswersInOrder'
<1> SUFFICES ASSUME DialogueInv, AnswersInv, AnswersInOrder, TakeIo PROVE AnswersInOrder'
  OBVIOUS
<1> DEFINE Q == Questions(dialogue.mode)
           q == Q[asked + 1]
<1>1. /\ asked + 1 \in 1 .. Len(Q) /\ asked' = asked + 1 /\ asked \in Nat
      /\ q.file \in CfgFiles /\ q.item \in DOMAIN Table[q.file]
      /\ dialogue' = dialogue
      /\ kv'[q.file][q.item] = IF line' = << >> THEN kv[q.file][q.item] ELSE line'
      /\ \A f \in CfgFiles : \A i \in DOMAIN Table[f] :
           ~(f = q.file /\ i = q.item) => kv'[f][i] = kv[f][i]
  BY TakeIoIs
<1>2. /\ Table' = Table /\ \A mode : Questions(mode)' = Questions(mode)
      /\ \A n : AnswerTo(n)' = AnswerTo(n)
  BY <1>1, SameDialogue, Zenon
<1>3. /\ DOMAIN Q = 1 .. Len(Q) /\ Len(Q) \in Nat
      /\ \A n \in DOMAIN Q :
           /\ Q[n].file \in CfgFiles /\ Q[n].item \in DOMAIN Table[Q[n].file]
           /\ Q[n] = Question(Q[n].file, Q[n].item)
           /\ \A r \in DOMAIN Q : Q[n].file = Q[r].file /\ Q[n].item = Q[r].item => n = r
  BY QuestionsAre DEF DialogueInv
<1>4. SUFFICES ASSUME dialogue.mode # 1 \/ ~dialogue.cut
               PROVE  /\ \A n \in 1 .. asked' : IsAnswered(n)'
                      /\ \A f \in CfgFiles : \A i \in DOMAIN Table[f] :
                           \/ kv'[f][i] = Table[f][i].default
                           \/ \E n \in 1 .. asked' : Q[n] = [file |-> f, item |-> i]
  BY <1>1, <1>2, Zenon DEF AnswersInOrder
<1>5. /\ \A n \in 1 .. asked : IsAnswered(n)
      /\ \A f \in CfgFiles : \A i \in DOMAIN Table[f] :
           \/ kv[f][i] = Table[f][i].default
           \/ \E n \in 1 .. asked : Q[n] = Question(f, i)
  BY <1>4, Zenon DEF AnswersInOrder, Question
<1>6. line' = AnswerTo(asked + 1)
  BY <1>4, AnswersTakeIo
<1>7. q = Question(q.file, q.item)
  BY <1>1, <1>3
<1> HIDE DEF q
<1>8. \A n \in 1 .. asked : n \in DOMAIN Q /\ n # asked + 1
  BY <1>1, <1>3
<1>9. \A n \in 1 .. asked : ~(Q[n].file = q.file /\ Q[n].item = q.item)
  BY <1>1, <1>3, <1>8 DEF q
<1>10. kv[q.file][q.item] = Table[q.file][q.item].default
  <2>1. \A n \in 1 .. asked : Q[n] # Question(q.file, q.item)
    <3> SUFFICES ASSUME NEW n \in 1 .. asked, Q[n] = Question(q.file, q.item) PROVE FALSE
      OBVIOUS
    <3>1. Q[n].file = q.file /\ Q[n].item = q.item
      BY DEF Question
    <3> QED BY <3>1, <1>9
  <2> QED BY <2>1, <1>1, <1>5, Zenon
<1>11. /\ kv'[q.file][q.item] =
            IF AnswerTo(asked + 1) = << >> THEN Table[q.file][q.item].default ELSE AnswerTo(asked + 1)
  BY <1>1, <1>6, <1>10, Zenon
<1>12. ASSUME NEW n \in 1 .. asked' PROVE IsAnswered(n)'
  <2>1. IsAnswered(n)' =
          (kv'[Q[n].file][Q[n].item] =
             IF AnswerTo(n) = << >> THEN Table[Q[n].file][Q[n].item].default ELSE AnswerTo(n))
    BY <1>1, <1>2, Zenon DEF IsAnswered
  <2>2. CASE n = asked + 1
    BY <2>1, <2>2, <1>11, Zenon DEF q
  <2>3. CASE n # asked + 1
    <3>1. n \in 1 .. asked
      BY <2>3, <1>1
    <3>2. kv'[Q[n].file][Q[n].item] = kv[Q[n].file][Q[n].item]
      BY <3>1, <1>1, <1>3, <1>8, <1>9, Zenon
    <3>3. kv[Q[n].file][Q[n].item] =
            IF AnswerTo(n) = << >> THEN Table[Q[n].file][Q[n].item].default ELSE AnswerTo(n)
      BY <3>1, <1>5, Zenon DEF IsAnswered
    <3> QED BY <2>1, <3>2, <3>3, Zenon
  <2> QED BY <2>2, <2>3
<1>13. 1 .. asked \subseteq 1 .. asked' /\ asked + 1 \in 1 .. asked'
  BY <1>1
<1>14. ASSUME NEW f \in CfgFiles, NEW i \in DOMAIN Table[f]
       PROVE  \/ kv'[f][i] = Table[f][i].default
              \/ \E n \in 1 .. asked' : Q[n] = Question(f, i)
  <2>1. CASE f = q.file /\ i = q.item
    <3>1. Q[asked + 1] = Question(f, i)
      BY <2>1, <1>7, Zenon DEF q
    <3> QED BY <3>1, <1>13, Zenon
  <2>2. CASE ~(f = q.file /\ i = q.item)
    BY <2>2, <1>1, <1>5, <1>13, Zenon
  <2> QED BY <2>1, <2>2
<1> QED BY <1>12, <1>14, Zenon DEF Question

\* The files are written when all is answered.
LEMMA InOrderOutputFile == AnswersInOrder /\ OutputFile => AnswersInOrder'
<1> SUFFICES ASSUME AnswersInOrder, OutputFile PROVE AnswersInOrder'
  OBVIOUS
<1>1. dialogue' = dialogue /\ kv' = kv /\ asked' = asked
  BY Zenon DEF OutputFile
<1>2. /\ Table' = Table /\ \A mode : Questions(mode)' = Questions(mode)
      /\ \A n : AnswerTo(n)' = AnswerTo(n)
  BY <1>1, SameDialogue, Zenon
<1>3. \A n : IsAnswered(n)' = IsAnswered(n)
  BY <1>1, <1>2, Zenon DEF IsAnswered
<1> QED BY <1>1, <1>2, <1>3, Zenon DEF AnswersInOrder

-----------------------------------------------------------------------------
(* The disk *)

\* The files written: all four, none of them twice.
LEMMA FileOrderIs ==
  /\ \A n \in 1 .. 4 : FileOrder[n] \in CfgFiles
  /\ \A m, n \in 1 .. 4 : FileOrder[m] = FileOrder[n] => m = n
  /\ \A f \in CfgFiles : \E n \in 1 .. 4 : f = FileOrder[n]
<1>1. \A n \in 1 .. 4 : n = 1 \/ n = 2 \/ n = 3 \/ n = 4
  OBVIOUS
<1>2. /\ FileOrder[1] = "pulsar" /\ FileOrder[2] = "observatory"
      /\ FileOrder[3] = "project" /\ FileOrder[4] = "scan"
  BY DEF FileOrder
<1>3. 1 \in 1 .. 4 /\ 2 \in 1 .. 4 /\ 3 \in 1 .. 4 /\ 4 \in 1 .. 4
  OBVIOUS
<1>4. \A n \in 1 .. 4 : FileOrder[n] \in CfgFiles
  BY <1>1, <1>2 DEF CfgFiles
<1>5. \A m, n \in 1 .. 4 : FileOrder[m] = FileOrder[n] => m = n
  BY <1>1, <1>2
<1>6. \A f \in CfgFiles : \E n \in 1 .. 4 : f = FileOrder[n]
  BY <1>2, <1>3, Zenon DEF CfgFiles
<1> QED BY <1>4, <1>5, <1>6

\* Names of one token differ when the tokens do.
LEMMA NamesDiffer == \A a, b : << a >> = << b >> => a = b
  OBVIOUS

\* A value is a text that parse can read.
LEMMA ValueIs ==
  ASSUME DialogueInv, NEW f \in CfgFiles, NEW i \in DOMAIN Table[f]
  PROVE  /\ Table[f][i].key \in Tokens
         /\ Table[f][i].key # Equals /\ Table[f][i].key # Semicolon
         /\ IsValue(kv[f][i]) /\ kv[f][i] \in Seq(Tokens)
         /\ CleanDialogue => Endless(kv[f][i])
<1>0. dialogue \in Dialogues
  BY DEF DialogueInv
<1>1. IsEntry(Table[f][i])
  BY <1>0, TableIs
<1>2. kv[f][i] \in {Table[f][i].default} \cup TypedValues
  BY Zenon DEF DialogueInv
<1>3. CASE kv[f][i] = Table[f][i].default
  BY <1>1, <1>3, Zenon DEF IsEntry, IsValue
<1>4. CASE kv[f][i] \in TypedValues
  <2>1. PICK n \in DOMAIN dialogue.lines : kv[f][i] = dialogue.lines[n] /\ kv[f][i] # << >>
    BY <1>4, Zenon DEF TypedValues
  <2>2. IsTyped(kv[f][i])
    BY <2>1, <1>0, DialogueIs
  <2>3. CleanDialogue => Endless(kv[f][i])
    BY <2>1, Zenon DEF CleanDialogue, Endless, Semicolon
  <2> QED BY <1>1, <2>1, <2>2, <2>3, Zenon DEF IsEntry, IsTyped, IsValue
<1> QED BY <1>2, <1>3, <1>4

\* A line is first for its key when no earlier one has the key.
LEMMA FirstForLine ==
  ASSUME NEW lines, NEW n \in DOMAIN lines, NEW key, NEW v, lines[n] = LineFor(key, v),
         \A m \in 1 .. n - 1 : lines[m] = << >> \/ Head(lines[m]) # key
  PROVE  FirstFor(lines, key, v)
  BY Zenon DEF FirstFor

\* What outputfile writes: a line for each key.
LEMMA LinesOfIs ==
  ASSUME DialogueInv, NEW f \in CfgFiles
  PROVE  /\ LinesOf(f) \in Seq(Seq(Tokens)) /\ DOMAIN LinesOf(f) = DOMAIN Table[f]
         /\ Len(LinesOf(f)) = Len(Table[f])
         /\ \A i \in DOMAIN Table[f] :
              /\ LinesOf(f)[i] = LineFor(Table[f][i].key, kv[f][i])
              /\ FirstFor(LinesOf(f), Table[f][i].key, kv[f][i])
<1> DEFINE L == LinesOf(f)
<1>0. /\ Len(Table[f]) \in Nat /\ DOMAIN Table[f] = 1 .. Len(Table[f])
      /\ \A i, j \in DOMAIN Table[f] : Table[f][i].key = Table[f][j].key => i = j
  BY TableIs DEF DialogueInv
<1>1. L = [i \in DOMAIN Table[f] |-> LineFor(Table[f][i].key, kv[f][i])]
  BY Zenon DEF LinesOf, LineFor, Equals, Semicolon
<1>2. \A i \in DOMAIN Table[f] : Table[f][i].key \in Tokens /\ kv[f][i] \in Seq(Tokens)
  BY ValueIs
<1> HIDE DEF L
<1>3. \A i \in DOMAIN Table[f] :
        /\ L[i] = LineFor(Table[f][i].key, kv[f][i]) /\ L[i] \in Seq(Tokens)
        /\ Head(L[i]) = Table[f][i].key
  BY <1>1, <1>2, LineIs
<1>4. /\ L \in Seq(Seq(Tokens)) /\ DOMAIN L = DOMAIN Table[f] /\ Len(L) = Len(Table[f])
  BY <1>0, <1>1, <1>3
<1>5. ASSUME NEW i \in DOMAIN Table[f] PROVE FirstFor(L, Table[f][i].key, kv[f][i])
  <2>1. \A m \in 1 .. i - 1 : m \in DOMAIN Table[f] /\ m # i
    BY <1>0
  <2>2. \A m \in 1 .. i - 1 : Head(L[m]) # Table[f][i].key
    BY <2>1, <1>0, <1>3
  <2>3. i \in DOMAIN L
    BY <1>4
  <2> QED BY <2>2, <2>3, <1>3, FirstForLine
<1> QED BY <1>3, <1>4, <1>5 DEF L

\* A file that is left alone stays as it is.
LEMMA SameFile ==
  ASSUME NEW f \in CfgFiles, FileInv(f), dialogue' = dialogue, kv' = kv,
         disk'[<< f >>] = disk[<< f >>], edits \subseteq edits'
  PROVE  FileInv(f)'
<1>1. Table' = Table
  BY Zenon DEF Table
<1>2. Untouched(f)' => Untouched(f)
  BY Zenon DEF Untouched
<1>3. LinesOf(f)' = LinesOf(f)
  BY <1>1, Zenon DEF LinesOf
<1>4. disk'[<< f >>] \in Seq(Seq(Tokens))
  BY Zenon DEF FileInv
<1>5. Untouched(f)' => disk'[<< f >>] = LinesOf(f)'
  BY <1>2, <1>3, Zenon DEF FileInv
<1>6. ASSUME NEW i \in DOMAIN Table[f], << f, Table[f][i].key >> \notin edits'
      PROVE  FirstFor(disk'[<< f >>], Table[f][i].key, kv'[f][i])
  BY <1>6, Zenon DEF FileInv
<1> QED BY <1>1, <1>4, <1>5, <1>6, Zenon DEF FileInv

\* Nothing is on the disk while questions are asked, and then one file more.
LEMMA DiskTakeIo ==
  DialogueInv /\ DiskInv /\ phase = "cfgen" /\ UNCHANGED << phase, edits >> /\ TakeIo => DiskInv'
<1> SUFFICES ASSUME DialogueInv, DiskInv, phase = "cfgen", UNCHANGED << phase, edits >>, TakeIo
             PROVE  DiskInv'
  OBVIOUS
<1>1. disk' = disk /\ output' = output /\ ~(output > 0)
  BY TakeIoIs
<1>2. \A n : n \notin 1 .. output
  BY <1>1 DEF DialogueInv
<1>3. DOMAIN disk = {<< FileOrder[n] >> : n \in 1 .. output}
  BY DEF DiskInv
<1>4. \A f \in CfgFiles : << f >> \notin DOMAIN disk
  BY <1>2, <1>3, Zenon
<1>5. phase' = "cfgen" /\ edits' = {}
  BY Zenon DEF DiskInv
<1> QED BY <1>1, <1>3, <1>4, <1>5, Zenon DEF DiskInv

\* The file written has a line for each key, and the others stay.
LEMMA DiskOutputFile ==
  DialogueInv /\ DiskInv /\ phase = "cfgen" /\ UNCHANGED << phase, edits >> /\ OutputFile => DiskInv'
<1> SUFFICES ASSUME DialogueInv, DiskInv, phase = "cfgen", UNCHANGED << phase, edits >>, OutputFile
             PROVE  DiskInv'
  OBVIOUS
<1> DEFINE f == FileOrder[output + 1]
<1>0. output \in 0 .. 4 /\ output < 4 /\ output' = output + 1 /\ dialogue' = dialogue /\ kv' = kv
  BY Zenon DEF DialogueInv, OutputFile
<1>1. f \in CfgFiles
  <2>1. output + 1 \in 1 .. 4
    BY <1>0
  <2> QED BY <2>1, FileOrderIs
<1>2. filename'[f] = << f >>
  <2>1. NewName(f, << >>) = filename[f] /\ filename' = [filename EXCEPT ![f] = NewName(f, << >>)]
    BY Zenon DEF NewName, OutputFile
  <2> HIDE DEF f
  <2>2. filename = [g \in CfgFiles |-> << g >>]
    BY DEF DialogueInv
  <2> QED BY <2>1, <2>2, <1>1
<1>3. disk' = [name \in DOMAIN disk \cup {<< f >>} |->
                 IF name = << f >> THEN LinesOf(f) ELSE disk[name]]
  <2>1. disk' = [name \in DOMAIN disk \cup {filename'[f]} |->
                  IF name = filename'[f] THEN LinesOf(f) ELSE disk[name]]
    BY Zenon DEF OutputFile
  <2> QED BY <2>1, <1>2
<1>4. phase' = "cfgen" /\ edits' = {} /\ edits = {}
  BY Zenon DEF DiskInv
<1>5. DOMAIN disk' = {<< FileOrder[n] >> : n \in 1 .. output'}
  <2>1. DOMAIN disk = {<< FileOrder[n] >> : n \in 1 .. output}
    BY DEF DiskInv
  <2>2. \A n : n \in 1 .. output' <=> n \in 1 .. output \/ n = output + 1
    BY <1>0
  <2>3. DOMAIN disk' = DOMAIN disk \cup {<< f >>}
    BY <1>3
  <2> QED BY <2>1, <2>2, <2>3, Zenon
<1> HIDE DEF f
<1>6. ASSUME NEW g \in CfgFiles, << g >> \in DOMAIN disk' PROVE FileInv(g)'
  <2>1. CASE g = f
    <3>1. disk'[<< g >>] = LinesOf(g)
      BY <1>3, <2>1
    <3>2. Table' = Table
      BY <1>0, Zenon DEF Table
    <3>3. LinesOf(g)' = LinesOf(g)
      BY <3>2, <1>0, Zenon DEF LinesOf
    <3>4. /\ LinesOf(g) \in Seq(Seq(Tokens))
          /\ \A i \in DOMAIN Table[g] : FirstFor(LinesOf(g), Table[g][i].key, kv[g][i])
      BY LinesOfIs
    <3> QED BY <3>1, <3>2, <3>3, <3>4, <1>0, Zenon DEF FileInv
  <2>2. CASE g # f
    <3>1. << g >> # << f >>
      BY <2>2, NamesDiffer
    <3>2. << g >> \in DOMAIN disk /\ disk'[<< g >>] = disk[<< g >>]
      BY <3>1, <1>3, <1>6
    <3>3. FileInv(g)
      BY <3>2, Zenon DEF DiskInv
    <3> QED BY <3>2, <3>3, <1>0, <1>4, SameFile
  <2> QED BY <2>1, <2>2
<1> QED BY <1>4, <1>5, <1>6, Zenon DEF DiskInv

\* What an editor makes of a line is nothing, or begins with its key.
LEMMA EditedIs ==
  ASSUME NEW text \in Seq(Tokens), text # << >>, NEW e \in Edited(text)
  PROVE  e \in Seq(Tokens) /\ (e = << >> \/ Head(e) = Head(text))
<1>1. Word \in Tokens
  BY Separators
<1>2. \/ \E n \in 2 .. Len(text) : e = Without(text, n)
      \/ e = << Head(text), Equals, Semicolon >>
      \/ e = << Head(text), Equals, Word, Semicolon >>
      \/ e = << >>
  BY Zenon DEF Edited, Equals, Semicolon, Word
<1>3. Head(text) \in Tokens
  OBVIOUS
<1>4. CASE \E n \in 2 .. Len(text) : e = Without(text, n)
  <2>1. PICK n \in 2 .. Len(text) : e = Without(text, n)
    BY <1>4
  <2>2. /\ SubSeq(text, 1, n - 1) \in Seq(Tokens) /\ SubSeq(text, n + 1, Len(text)) \in Seq(Tokens)
        /\ Len(SubSeq(text, 1, n - 1)) > 0 /\ SubSeq(text, 1, n - 1)[1] = text[1]
    BY <2>1
  <2>3. e = SubSeq(text, 1, n - 1) \o SubSeq(text, n + 1, Len(text))
    BY <2>1, Zenon DEF Without
  <2>4. e \in Seq(Tokens) /\ Len(e) > 0 /\ e[1] = text[1]
    BY <2>2, <2>3
  <2> QED BY <2>4
<1>5. CASE e = << Head(text), Equals, Semicolon >>
  BY <1>3, <1>5, Separators
<1>6. CASE e = << Head(text), Equals, Word, Semicolon >>
  BY <1>1, <1>3, <1>6, Separators
<1>7. CASE e = << >>
  BY <1>7
<1> QED BY <1>2, <1>4, <1>5, <1>6, <1>7, Zenon

\* The line of a key that is not edited stays the first of its key: when another
\* line is changed, when one is removed, when one is added.
LEMMA FirstForChanged ==
  ASSUME NEW lines \in Seq(Seq(Tokens)), NEW i \in DOMAIN lines, lines[i] # << >>,
         NEW key \in Tokens, NEW v \in Seq(Tokens), key # Head(lines[i]),
         NEW text, text = << >> \/ Head(text) = Head(lines[i]), FirstFor(lines, key, v)
  PROVE  FirstFor([lines EXCEPT ![i] = text], key, v)
<1> DEFINE new == [lines EXCEPT ![i] = text]
<1>1. PICK n \in DOMAIN lines : /\ lines[n] = LineFor(key, v)
                                /\ \A m \in 1 .. n - 1 : lines[m] = << >> \/ Head(lines[m]) # key
  BY Zenon DEF FirstFor
<1>2. n # i
  <2>1. Head(LineFor(key, v)) = key
    BY LineIs
  <2> QED BY <2>1, <1>1, Zenon
<1>3. n \in DOMAIN new /\ new[n] = lines[n]
  BY <1>2
<1>4. ASSUME NEW m \in 1 .. n - 1 PROVE new[m] = << >> \/ Head(new[m]) # key
  <2>1. m \in DOMAIN lines
    OBVIOUS
  <2>2. CASE m = i
    BY <2>1, <2>2
  <2>3. CASE m # i
    BY <2>1, <2>3, <1>1
  <2> QED BY <2>2, <2>3
<1> HIDE DEF new
<1>5. FirstFor(new, key, v)
  BY <1>1, <1>3, <1>4, FirstForLine
<1> QED BY <1>5 DEF new

\* A sequence without its nth element.
LEMMA WithoutIs ==
  ASSUME NEW S, NEW s \in Seq(S), NEW i \in DOMAIN s
  PROVE  /\ Without(s, i) \in Seq(S) /\ Len(Without(s, i)) = Len(s) - 1
         /\ DOMAIN Without(s, i) = 1 .. Len(s) - 1
         /\ \A n \in 1 .. i - 1 : Without(s, i)[n] = s[n]
         /\ \A n \in i .. Len(s) - 1 : Without(s, i)[n] = s[n + 1]
<1> DEFINE a == SubSeq(s, 1, i - 1)
           b == SubSeq(s, i + 1, Len(s))
<1>1. /\ a \in Seq(S) /\ Len(a) = i - 1 /\ \A n \in 1 .. i - 1 : a[n] = s[n]
      /\ b \in Seq(S) /\ Len(b) = Len(s) - i /\ \A n \in 1 .. Len(s) - i : b[n] = s[n + i]
  OBVIOUS
<1>2. Without(s, i) = a \o b
  BY Zenon DEF Without
<1>3. i \in Nat /\ i > 0 /\ Len(s) \in Nat /\ i <= Len(s)
  OBVIOUS
<1> HIDE DEF a, b
<1> DEFINE u == a \o b
<1>4. /\ u \in Seq(S) /\ Len(u) = Len(s) - 1 /\ DOMAIN u = 1 .. Len(s) - 1
      /\ \A n \in 1 .. i - 1 : u[n] = a[n]
      /\ \A n \in i .. Len(s) - 1 : u[n] = b[n - (i - 1)]
  BY <1>1, <1>3
<1> HIDE DEF u
<1>5. ASSUME NEW n \in i .. Len(s) - 1 PROVE u[n] = s[n + 1]
  <2>1. n - (i - 1) \in 1 .. Len(s) - i /\ (n - (i - 1)) + i = n + 1
    BY <1>3
  <2>2. b[n - (i - 1)] = s[(n - (i - 1)) + i]
    BY <2>1, <1>1
  <2> QED BY <2>1, <2>2, <1>4
<1>6. \A n \in 1 .. i - 1 : u[n] = s[n]
  BY <1>1, <1>4
<1>7. Without(s, i) = u
  BY <1>2 DEF u
<1> QED BY <1>4, <1>5, <1>6, <1>7

\* It is still there when another line is removed.
LEMMA FirstForRemoved ==
  ASSUME NEW lines \in Seq(Seq(Tokens)), NEW i \in DOMAIN lines,
         NEW key \in Tokens, NEW v \in Seq(Tokens), key # Head(lines[i]), FirstFor(lines, key, v)
  PROVE  FirstFor(Without(lines, i), key, v)
<1> DEFINE new == Without(lines, i)
<1>1. PICK n \in DOMAIN lines : /\ lines[n] = LineFor(key, v)
                                /\ \A m \in 1 .. n - 1 : lines[m] = << >> \/ Head(lines[m]) # key
  BY Zenon DEF FirstFor
<1>2. n # i
  <2>1. Head(LineFor(key, v)) = key
    BY LineIs
  <2> QED BY <2>1, <1>1, Zenon
<1>3. /\ DOMAIN new = 1 .. Len(lines) - 1
      /\ \A m \in 1 .. i - 1 : new[m] = lines[m]
      /\ \A m \in i .. Len(lines) - 1 : new[m] = lines[m + 1]
  BY WithoutIs
<1>4. i \in 1 .. Len(lines) /\ n \in 1 .. Len(lines) /\ Len(lines) \in Nat
  OBVIOUS
<1> HIDE DEF new
<1>5. CASE n < i
  <2>1. n \in 1 .. i - 1 /\ n \in DOMAIN new /\ \A m \in 1 .. n - 1 : m \in 1 .. i - 1
    BY <1>3, <1>4, <1>5
  <2>2. new[n] = LineFor(key, v) /\ \A m \in 1 .. n - 1 : new[m] = << >> \/ Head(new[m]) # key
    BY <2>1, <1>1, <1>3
  <2>3. FirstFor(new, key, v)
    BY <2>1, <2>2, FirstForLine
  <2> QED BY <2>3 DEF new
<1>6. CASE n > i
  <2>0. n - 1 \in i .. Len(lines) - 1 /\ n - 1 \in 1 .. Len(lines) - 1 /\ (n - 1) + 1 = n
    BY <1>4, <1>6
  <2>1. n - 1 \in i .. Len(lines) - 1 /\ n - 1 \in DOMAIN new /\ (n - 1) + 1 = n
    BY <2>0, <1>3, Zenon
  <2>2. new[n - 1] = LineFor(key, v)
    BY <2>1, <1>1, <1>3
  <2>3. ASSUME NEW m \in 1 .. (n - 1) - 1 PROVE new[m] = << >> \/ Head(new[m]) # key
    <3>1. CASE m < i
      <4>1. m \in 1 .. i - 1 /\ m \in 1 .. n - 1
        BY <3>1, <1>4
      <4> QED BY <4>1, <1>1, <1>3
    <3>2. CASE m >= i
      <4>1. m \in i .. Len(lines) - 1 /\ m + 1 \in 1 .. n - 1
        BY <3>2, <1>4
      <4> QED BY <4>1, <1>1, <1>3
    <3> QED BY <3>1, <3>2, <1>4
  <2>4. FirstFor(new, key, v)
    BY <2>1, <2>2, <2>3, FirstForLine
  <2> QED BY <2>4 DEF new
<1> QED BY <1>2, <1>4, <1>5, <1>6

\* And when a line is added at the end.
LEMMA FirstForAdded ==
  ASSUME NEW lines \in Seq(Seq(Tokens)), NEW text, NEW key, NEW v, FirstFor(lines, key, v)
  PROVE  FirstFor(Append(lines, text), key, v)
<1> DEFINE new == Append(lines, text)
<1>1. PICK n \in DOMAIN lines : /\ lines[n] = LineFor(key, v)
                                /\ \A m \in 1 .. n - 1 : lines[m] = << >> \/ Head(lines[m]) # key
  BY Zenon DEF FirstFor
<1>2. \A m \in 1 .. Len(lines) : m \in DOMAIN new /\ new[m] = lines[m]
  OBVIOUS
<1>3. n \in 1 .. Len(lines) /\ \A m \in 1 .. n - 1 : m \in 1 .. Len(lines)
  OBVIOUS
<1> HIDE DEF new
<1>4. \A m \in 1 .. n - 1 : new[m] = << >> \/ Head(new[m]) # key
  BY <1>1, <1>2, <1>3, Zenon
<1>5. n \in DOMAIN new /\ new[n] = LineFor(key, v)
  BY <1>1, <1>2, <1>3, Zenon
<1>6. FirstFor(new, key, v)
  BY <1>4, <1>5, FirstForLine
<1> QED BY <1>6 DEF new

\* An edit leaves the lines of all keys but its own.
LEMMA DiskEdited ==
  ASSUME DialogueInv, DiskInv, NEW f \in CfgFiles, MayEdit(f), NEW key, Record(f, key),
         NEW lines \in Seq(Seq(Tokens)), EditFile(<< f >>, lines),
         \A i \in DOMAIN Table[f] :
           FirstFor(disk[<< f >>], Table[f][i].key, kv[f][i])
           /\ << f, Table[f][i].key >> \notin edits'
             => FirstFor(lines, Table[f][i].key, kv[f][i])
  PROVE  DiskInv'
<1>1. /\ disk' = [disk EXCEPT ![<< f >>] = lines]
      /\ phase' = phase /\ dialogue' = dialogue /\ kv' = kv /\ output' = output
  BY Zenon DEF EditFile
<1>2. phase = "edit" /\ << f >> \in DOMAIN disk
  BY Zenon DEF MayEdit
<1>3. edits' = edits \cup {<< f, key >>}
  BY Zenon DEF Record
<1>4. DOMAIN disk' = DOMAIN disk /\ disk'[<< f >>] = lines
  BY <1>1, <1>2
<1>5. edits \subseteq edits'
  BY <1>3
<1>6. Table' = Table
  BY <1>1, Zenon DEF Table
<1>7. FileInv(f)'
  <2>1. ~Untouched(f)'
    <3>1. << f, key >> \in edits' /\ << f, key >>[1] = f
      BY <1>3
    <3> QED BY <3>1, Zenon DEF Untouched
  <2>2. ASSUME NEW i \in DOMAIN Table[f], << f, Table[f][i].key >> \notin edits'
        PROVE  FirstFor(lines, Table[f][i].key, kv[f][i])
    <3>1. FirstFor(disk[<< f >>], Table[f][i].key, kv[f][i])
      BY <1>2, <1>5, <2>2, Zenon DEF DiskInv, FileInv
    <3> QED BY <3>1, <2>2
  <2> QED BY <2>1, <2>2, <1>1, <1>4, <1>6, Zenon DEF FileInv
<1>8. ASSUME NEW g \in CfgFiles, << g >> \in DOMAIN disk', g # f PROVE FileInv(g)'
  <2>1. << g >> # << f >>
    BY <1>8, NamesDiffer
  <2>2. << g >> \in DOMAIN disk /\ disk'[<< g >>] = disk[<< g >>]
    BY <2>1, <1>1, <1>8
  <2>3. FileInv(g)
    BY <2>2, Zenon DEF DiskInv
  <2> QED BY <2>2, <2>3, <1>1, <1>5, SameFile
<1>9. phase' # "cfgen"
  BY <1>1, <1>2
<1> QED BY <1>1, <1>2, <1>4, <1>7, <1>8, <1>9, Zenon DEF DiskInv

\* Whatever the operator does to a line is such an edit.
LEMMA DiskEdit == DialogueInv /\ DiskInv /\ Edit => DiskInv'
<1> SUFFICES ASSUME DialogueInv, DiskInv, Edit PROVE DiskInv'
  OBVIOUS
<1>1. PICK f \in CfgFiles :
        /\ MayEdit(f)
        /\ \/ \E i \in DOMAIN disk[<< f >>] : EditLine(f, i) \/ RemoveLine(f, i)
           \/ \E i \in DOMAIN Table[f] : AddLine(f, Table[f][i].key)
  BY Zenon DEF Edit
<1> DEFINE old == disk[<< f >>]
<1>2. old \in Seq(Seq(Tokens))
  BY <1>1, Zenon DEF MayEdit, DiskInv, FileInv
<1>3. \A i \in DOMAIN Table[f] : Table[f][i].key \in Tokens /\ kv[f][i] \in Seq(Tokens)
  BY ValueIs
<1>4. ASSUME NEW i \in DOMAIN old, EditLine(f, i) PROVE DiskInv'
  <2>1. PICK text \in Edited(old[i]) : EditFile(<< f >>, [old EXCEPT ![i] = text])
    BY <1>4, Zenon DEF EditLine
  <2>2. old[i] # << >> /\ Record(f, Head(old[i]))
    BY <1>4, Zenon DEF EditLine
  <2>3. old[i] \in Seq(Tokens)
    BY <1>2, ElementsOf, Zenon
  <2> HIDE DEF old
  <2>4. text \in Seq(Tokens) /\ (text = << >> \/ Head(text) = Head(old[i]))
    BY <2>2, <2>3, EditedIs
  <2> DEFINE new == [old EXCEPT ![i] = text]
  <2>5. new \in Seq(Seq(Tokens))
    BY <2>4, <1>2
  <2>6. ASSUME NEW j \in DOMAIN Table[f], FirstFor(old, Table[f][j].key, kv[f][j]),
               << f, Table[f][j].key >> \notin edits'
        PROVE  FirstFor(new, Table[f][j].key, kv[f][j])
    <3>1. Table[f][j].key # Head(old[i])
      BY <2>2, <2>6, Zenon DEF Record
    <3> QED BY <3>1, <2>2, <2>4, <2>6, <1>2, <1>3, FirstForChanged
  <2> HIDE DEF new
  <2>7. EditFile(<< f >>, new)
    BY <2>1 DEF new
  <2> QED BY <2>2, <2>5, <2>6, <2>7, <1>1, DiskEdited DEF old
<1>5. ASSUME NEW i \in DOMAIN old, RemoveLine(f, i) PROVE DiskInv'
  <2> DEFINE new == Without(old, i)
  <2>1. Record(f, Head(old[i])) /\ EditFile(<< f >>, new)
    BY <1>5, Zenon DEF RemoveLine
  <2> HIDE DEF old
  <2>2. new \in Seq(Seq(Tokens))
    BY <1>2, WithoutIs
  <2>3. ASSUME NEW j \in DOMAIN Table[f], FirstFor(old, Table[f][j].key, kv[f][j]),
               << f, Table[f][j].key >> \notin edits'
        PROVE  FirstFor(new, Table[f][j].key, kv[f][j])
    <3>1. Table[f][j].key # Head(old[i])
      BY <2>1, <2>3, Zenon DEF Record
    <3> QED BY <3>1, <2>3, <1>2, <1>3, FirstForRemoved
  <2> HIDE DEF new
  <2> QED BY <2>1, <2>2, <2>3, <1>1, DiskEdited DEF old
<1>6. ASSUME NEW i \in DOMAIN Table[f], AddLine(f, Table[f][i].key) PROVE DiskInv'
  <2> DEFINE text == << Table[f][i].key, Equals, Word, Semicolon >>
             new == Append(old, text)
  <2>1. Record(f, "") /\ EditFile(<< f >>, new)
    BY <1>6, Zenon DEF AddLine, Equals, Word, Semicolon
  <2> HIDE DEF old
  <2>2. text \in Seq(Tokens)
    BY <1>3, Separators
  <2> HIDE DEF text
  <2>3. new \in Seq(Seq(Tokens))
    BY <2>2, <1>2
  <2>4. ASSUME NEW j \in DOMAIN Table[f], FirstFor(old, Table[f][j].key, kv[f][j])
        PROVE  FirstFor(new, Table[f][j].key, kv[f][j])
    BY <2>4, <1>2, FirstForAdded
  <2> HIDE DEF new
  <2> QED BY <2>1, <2>3, <2>4, <1>1, DiskEdited DEF old
<1> QED BY <1>1, <1>4, <1>5, <1>6, Zenon

\* The other steps leave the disk alone.
LEMMA DiskSame ==
  ASSUME DiskInv, dialogue' = dialogue, kv' = kv, output' = output, disk' = disk, edits' = edits,
         phase # "cfgen" \/ phase' = phase \/ output = 4, phase' = "cfgen" => phase = "cfgen"
  PROVE  DiskInv'
<1>1. \A f \in CfgFiles : FileInv(f) => FileInv(f)'
  BY SameFile
<1>2. /\ phase' = "cfgen" => edits' = {}
      /\ phase' # "cfgen" => output' = 4
  BY Zenon DEF DiskInv
<1>3. /\ DOMAIN disk = {<< FileOrder[n] >> : n \in 1 .. output}
      /\ \A f \in CfgFiles : << f >> \in DOMAIN disk => FileInv(f)
  BY Zenon DEF DiskInv
<1> QED BY <1>1, <1>2, <1>3, Zenon DEF DiskInv

\* The disk is empty at first.
LEMMA DiskInit == Init => DiskInv
<1> SUFFICES ASSUME Init PROVE DiskInv
  OBVIOUS
<1>1. phase = "cfgen" /\ edits = {} /\ output = 0 /\ disk = << >>
  BY Zenon DEF Init, GenInit
<1>2. DOMAIN disk = {}
  BY <1>1
<1>3. \A n : n \notin 1 .. output
  BY <1>1
<1> QED BY <1>1, <1>2, <1>3, Zenon DEF DiskInv

-----------------------------------------------------------------------------
(* The command line *)

\* Before the program is started its strings have their defaults.
LEMMA ArgInitial == Init => ArgInv
<1> SUFFICES ASSUME Init PROVE ArgInv
  OBVIOUS
<1>1. /\ args = << >> /\ optind = 0 /\ setting = [s \in Strings |-> Default(s)]
      /\ loads = 0 /\ phase = "cfgen"
  BY Zenon DEF Init, ArgInit
<1>2. Len(args) \in Nat /\ DOMAIN args = 1 .. Len(args) /\ optind \in 0 .. Len(args)
  BY <1>1
<1>3. \A n : n \notin 1 .. optind
  BY <1>1
<1>4. \A s \in Strings : SettingInv(s)
  BY <1>1, <1>3, Zenon DEF SettingInv, GivenTo
<1>5. DOMAIN setting = Strings
  BY <1>1, Zenon
<1>6. /\ ~(phase \in {"load", "look"} \/ loads > 0)
  BY <1>1
<1> QED BY <1>1, <1>2, <1>4, <1>5, <1>6, Zenon DEF ArgInv

\* A new command line is read from its start, with the strings as they were.
LEMMA ArgStart ==
  ASSUME ArgInv, LoadInv, Start
  PROVE  ArgInv'
<1>1. PICK cl \in CommandLines : Type(cl)
  BY Zenon DEF Start
<1>2. args' = cl /\ optind' = 0 /\ setting' = setting /\ phase = "edit" /\ phase' = "args" /\ loads' = loads
  BY <1>1, Zenon DEF Start, Type
<1>3. cl \in Seq([opt : STRING, arg : Seq(STRING)])
  BY CommandLinesAssumption, Zenon
<1>4. Len(cl) \in Nat /\ DOMAIN cl = 1 .. Len(cl)
  BY <1>3, ElementsOf, Zenon
<1>5. optind = 0 /\ \A n : n \notin 1 .. optind /\ n \notin 1 .. optind'
  BY <1>2 DEF ArgInv
<1>6. ASSUME NEW s \in Strings PROVE SettingInv(s)'
  <2>1. SettingInv(s)
    BY Zenon DEF ArgInv
  <2>2. setting[s] = Default(s)
    BY <2>1, <1>5, Zenon DEF SettingInv, GivenTo
  <2>3. GivenTo(s, optind)' = {} /\ setting'[s] = Default(s)
    BY <2>2, <1>2, <1>5, Zenon DEF GivenTo
  <2> QED BY <2>3, Zenon DEF SettingInv
<1>7. loads = 0
  BY <1>2, Zenon DEF LoadInv
<1>8. ~(phase' \in {"load", "look"} \/ loads' > 0)
  BY <1>2, <1>7
<1>9. optind' \in 0 .. Len(args')
  BY <1>2, <1>4
<1>10. DOMAIN setting' = Strings
  BY <1>2, Zenon DEF ArgInv
<1> QED BY <1>2, <1>4, <1>6, <1>8, <1>9, <1>10, Zenon DEF ArgInv

\* An option sets the strings it is for.
LEMMA ArgReadOption ==
  ASSUME ArgInv, LoadInv, ReadOption
  PROVE  ArgInv'
<1> DEFINE a == args[optind + 1]
<1>1. /\ optind < Len(args) /\ optind' = optind + 1 /\ args' = args
      /\ setting' = [s \in Strings |-> IF a.opt = OptionOf[s] THEN a.arg ELSE setting[s]]
      /\ phase = "args" /\ phase' = phase /\ loads' = loads
  BY Zenon DEF ReadOption, GetOpt
<1>2. optind \in Nat /\ Len(args) \in Nat /\ DOMAIN args = 1 .. Len(args)
  <2>1. optind \in 0 .. Len(args) /\ Len(args) \in Nat /\ DOMAIN args = 1 .. Len(args)
    BY Zenon DEF ArgInv
  <2>2. \A n \in 0 .. Len(args) : n \in Nat
    BY <2>1
  <2> QED BY <2>1, <2>2, Zenon
<1>3. /\ optind' \in 0 .. Len(args) /\ optind + 1 \in 1 .. optind'
      /\ \A n : n \in 1 .. optind' <=> (n \in 1 .. optind \/ n = optind + 1)
      /\ \A n \in 1 .. optind' : n <= optind + 1
  BY <1>1, <1>2
<1>4. ASSUME NEW s \in Strings PROVE SettingInv(s)'
  <2>0. SettingInv(s)
    BY Zenon DEF ArgInv
  <2>1. setting'[s] = IF a.opt = OptionOf[s] THEN a.arg ELSE setting[s]
    BY <1>1, Zenon
  <2>2. GivenTo(s, optind)' = {n \in 1 .. optind' : args[n].opt = OptionOf[s]}
    BY <1>1, Zenon DEF GivenTo
  <2>3. CASE a.opt = OptionOf[s]
    <3>1. /\ optind + 1 \in GivenTo(s, optind)' /\ setting'[s] = args'[optind + 1].arg
          /\ \A m \in GivenTo(s, optind)' : m <= optind + 1
      BY <1>1, <1>3, <2>1, <2>2, <2>3, Zenon
    <3> QED BY <3>1, Zenon DEF SettingInv
  <2>4. CASE a.opt # OptionOf[s]
    <3>1. GivenTo(s, optind)' = GivenTo(s, optind)
      BY <1>3, <2>2, <2>4, Zenon DEF GivenTo
    <3>2. setting'[s] = setting[s]
      BY <2>1, <2>4, Zenon
    <3> QED BY <3>1, <3>2, <2>0, <1>1, Zenon DEF SettingInv
  <2> QED BY <2>3, <2>4
<1>5. loads = 0
  BY <1>1, Zenon DEF LoadInv
<1>6. ~(phase' \in {"load", "look"} \/ loads' > 0) /\ phase' \notin {"cfgen", "edit"}
  BY <1>1, <1>5
<1>7. DOMAIN setting' = Strings
  BY <1>1, Zenon
<1> QED BY <1>1, <1>2, <1>3, <1>4, <1>6, <1>7, Zenon DEF ArgInv

\* The other steps read no options.
LEMMA ArgSame ==
  ASSUME ArgInv, argVars' = argVars,
         phase' \in {"cfgen", "edit"} => phase \in {"cfgen", "edit"},
         phase' \in {"load", "look"} \/ loads' > 0 =>
           phase \in {"load", "look"} \/ loads > 0 \/ optind = Len(args)
  PROVE  ArgInv'
<1>1. args' = args /\ optind' = optind /\ setting' = setting
  BY Zenon DEF argVars
<1>2. \A s \in Strings : SettingInv(s) => SettingInv(s)'
  BY <1>1, Zenon DEF SettingInv, GivenTo
<1> QED BY <1>1, <1>2, Zenon DEF ArgInv

\* When all options are read a string is what the command line says.
LEMMA SettingIsTold ==
  ASSUME ArgInv, optind = Len(args), NEW s \in Strings
  PROVE  setting[s] = Told(s)
<1>1. Given(s) = GivenTo(s, optind) /\ Given(s) \subseteq Nat
  <2>1. DOMAIN args = 1 .. Len(args) /\ Len(args) \in Nat
    BY DEF ArgInv
  <2>2. 1 .. Len(args) \subseteq Nat
    BY <2>1
  <2> QED BY <2>1, <2>2, Zenon DEF Given, GivenTo
<1>2. SettingInv(s)
  BY Zenon DEF ArgInv
<1>3. CASE Given(s) = {}
  BY <1>1, <1>2, <1>3, Zenon DEF SettingInv, Told
<1>4. CASE Given(s) # {}
  <2>1. PICK n \in Given(s) : (\A m \in Given(s) : m <= n) /\ setting[s] = args[n].arg
    BY <1>1, <1>2, <1>4, Zenon DEF SettingInv
  <2> DEFINE last == CHOOSE k \in Given(s) : \A m \in Given(s) : m <= k
  <2>2. last \in Given(s) /\ \A k \in Given(s) : k <= last
    BY <2>1
  <2>3. Told(s) = args[last].arg
    BY <1>4, Zenon DEF Told
  <2> HIDE DEF last
  <2>4. last <= n /\ n <= last /\ last \in Nat /\ n \in Nat
    BY <2>1, <2>2, <1>1
  <2>5. last = n
    BY <2>4
  <2> QED BY <2>1, <2>3, <2>5
<1> QED BY <1>3, <1>4

-----------------------------------------------------------------------------
(* Loading *)

\* The files loaded: all four, none of them twice.
LEMMA LoadOrderIs ==
  /\ Len(LoadOrder) = 4 /\ "none" \notin CfgFiles
  /\ \A n \in 1 .. 4 : LoadOrder[n] \in CfgFiles
  /\ \A m, n \in 1 .. 4 : LoadOrder[m] = LoadOrder[n] => m = n
  /\ \A f \in CfgFiles : \E n \in 1 .. 4 : LoadOrder[n] = f
<1>1. \A n \in 1 .. 4 : n = 1 \/ n = 2 \/ n = 3 \/ n = 4
  OBVIOUS
<1>2. /\ LoadOrder[1] = "pulsar" /\ LoadOrder[2] = "scan"
      /\ LoadOrder[3] = "observatory" /\ LoadOrder[4] = "project" /\ Len(LoadOrder) = 4
  BY DEF LoadOrder
<1>3. 1 \in 1 .. 4 /\ 2 \in 1 .. 4 /\ 3 \in 1 .. 4 /\ 4 \in 1 .. 4
  OBVIOUS
<1>4. \A n \in 1 .. 4 : LoadOrder[n] \in CfgFiles
  BY <1>1, <1>2 DEF CfgFiles
<1>5. \A m, n \in 1 .. 4 : LoadOrder[m] = LoadOrder[n] => m = n
  BY <1>1, <1>2
<1>6. \A f \in CfgFiles : \E n \in 1 .. 4 : LoadOrder[n] = f
  BY <1>2, <1>3, Zenon DEF CfgFiles
<1>7. "none" \notin CfgFiles
  BY DEF CfgFiles
<1> QED BY <1>2, <1>4, <1>5, <1>6, <1>7

\* The lines that are loaded for a file.
LEMMA LinesForTyped ==
  ASSUME DialogueInv, DiskInv, NEW f
  PROVE  LinesFor(f) \in Seq(Seq(Tokens))
<1>1. CASE NameFor(f) \notin DOMAIN disk
  <2>1. LinesFor(f) = << >>
    BY <1>1, Zenon DEF LinesFor, OnDisk
  <2> QED BY <2>1
<1>2. CASE NameFor(f) \in DOMAIN disk
  <2>1. LinesFor(f) = disk[NameFor(f)]
    BY <1>2, Zenon DEF LinesFor, OnDisk
  <2>2. PICK n \in 1 .. output : NameFor(f) = << FileOrder[n] >>
    BY <1>2, Zenon DEF DiskInv
  <2>3. n \in 1 .. 4
    BY DEF DialogueInv
  <2>4. FileOrder[n] \in CfgFiles
    BY <2>3, FileOrderIs
  <2>5. FileInv(FileOrder[n])
    BY <1>2, <2>2, <2>4, Zenon DEF DiskInv
  <2> QED BY <2>1, <2>2, <2>5, Zenon DEF FileInv
<1> QED BY <1>1, <1>2

\* Nothing read.
LEMMA NothingRead ==
  ASSUME NEW map, NEW lines, NEW others
  PROVE  ReadInv(map, lines, 0) => ReadInv(map, others, 0)
<1>1. \A n : n \notin 1 .. 0
  OBVIOUS
<1> QED BY <1>1, Zenon DEF ReadInv

\* A line that parses: its key is added, unless it is there.
LEMMA LineInserted ==
  ASSUME NEW map, NEW lines, NEW k \in Nat, ReadInv(map, lines, k), Parses(lines[k + 1])
  PROVE  ReadInv(Inserted(map, KeyOf(lines[k + 1]), ValueOf(lines[k + 1])), lines, k + 1)
<1> DEFINE key == KeyOf(lines[k + 1])
           new == Inserted(map, key, ValueOf(lines[k + 1]))
<1>1. \A n : n \in 1 .. k + 1 <=> n \in 1 .. k \/ n = k + 1
  OBVIOUS
<1>2. new = [x \in DOMAIN map \cup {key} |-> IF x \in DOMAIN map THEN map[x] ELSE ValueOf(lines[k + 1])]
  BY Zenon DEF Inserted
<1>3. DOMAIN map = {KeyOf(lines[n]) : n \in {n \in 1 .. k : Parses(lines[n])}}
  BY Zenon DEF ReadInv
<1> HIDE DEF new
<1>4. DOMAIN new = {KeyOf(lines[n]) : n \in {n \in 1 .. k + 1 : Parses(lines[n])}}
  <2>1. DOMAIN new = DOMAIN map \cup {key}
    BY <1>2, Zenon
  <2> QED BY <2>1, <1>1, <1>3, Zenon
<1>5. ASSUME NEW n \in 1 .. k + 1, FirstOfKey(lines, n)
      PROVE  new[KeyOf(lines[n])] = ValueOf(lines[n])
  <2>1. CASE n \in 1 .. k
    <3>1. KeyOf(lines[n]) \in DOMAIN map
      BY <2>1, <1>3, <1>5, Zenon DEF FirstOfKey
    <3>2. map[KeyOf(lines[n])] = ValueOf(lines[n])
      BY <2>1, <1>5, Zenon DEF ReadInv
    <3> QED BY <3>1, <3>2, <1>2, Zenon
  <2>2. CASE n = k + 1
    <3>1. \A m \in 1 .. k : Parses(lines[m]) => KeyOf(lines[m]) # key
      <4>1. (k + 1) - 1 = k
        OBVIOUS
      <4> QED BY <4>1, <2>2, <1>5, Zenon DEF FirstOfKey
    <3>2. key \notin DOMAIN map
      BY <3>1, <1>3, Zenon
    <3>3. new[key] = ValueOf(lines[k + 1])
      BY <3>2, <1>2, Zenon
    <3> QED BY <3>3, <2>2, Zenon
  <2> QED BY <2>1, <2>2, <1>1, <1>5, Zenon
<1>6. ReadInv(new, lines, k + 1)
  BY <1>4, <1>5, Zenon DEF ReadInv
<1> QED BY <1>6 DEF new

\* A line that does not parse adds nothing.
LEMMA LineSkipped ==
  ASSUME NEW map, NEW lines, NEW k \in Nat, ReadInv(map, lines, k), ~Parses(lines[k + 1])
  PROVE  ReadInv(map, lines, k + 1)
<1>1. \A n : n \in 1 .. k + 1 <=> n \in 1 .. k \/ n = k + 1
  OBVIOUS
<1>2. DOMAIN map = {KeyOf(lines[n]) : n \in {n \in 1 .. k + 1 : Parses(lines[n])}}
  BY <1>1, Zenon DEF ReadInv
<1>3. \A n \in 1 .. k + 1 : FirstOfKey(lines, n) => map[KeyOf(lines[n])] = ValueOf(lines[n])
  BY <1>1, Zenon DEF ReadInv, FirstOfKey
<1> QED BY <1>2, <1>3, Zenon DEF ReadInv

\* Of lines that all parse, with different keys, there are as many as keys.
LEMMA GoodCounts ==
  ASSUME NEW lines \in Seq(Seq(Tokens)), Good(lines), NEW map, ReadInv(map, lines, Len(lines))
  PROVE  Cardinality(DOMAIN map) = Len(lines)
<1> DEFINE I == 1 .. Len(lines)
           K == {KeyOf(lines[n]) : n \in I}
           b == [n \in I |-> KeyOf(lines[n])]
<1>1. DOMAIN lines = I /\ Len(lines) \in Nat
  OBVIOUS
<1> HIDE DEF I
<1>2. /\ \A n \in I : Parses(lines[n])
      /\ \A m, n \in I : KeyOf(lines[n]) = KeyOf(lines[m]) => n = m
  BY <1>1, Zenon DEF Good
<1>3. DOMAIN map = K
  <2>1. DOMAIN map = {KeyOf(lines[n]) : n \in {n \in I : Parses(lines[n])}}
    BY Zenon DEF ReadInv, I
  <2> QED BY <2>1, <1>2, Zenon
<1>4. b \in Bijection(I, K)
  <2>1. b \in [I -> K] /\ \A n \in I : b[n] = KeyOf(lines[n])
    OBVIOUS
  <2> HIDE DEF b
  <2>2. \A m, n \in I : b[m] = b[n] => m = n
    BY <2>1, <1>2, Zenon
  <2>3. \A x \in K : \E n \in I : b[n] = x
    BY <2>1, Zenon
  <2> HIDE DEF K
  <2> QED BY <2>1, <2>2, <2>3, Zenon DEF Bijection, Injection, Surjection, IsInjective
<1>5. IsFiniteSet(I) /\ Cardinality(I) = Len(lines)
  <2>1. 1 \in Int /\ Len(lines) \in Int /\ Len(lines) - 1 + 1 = Len(lines) /\ (1 > Len(lines) => Len(lines) = 0)
    BY <1>1
  <2>2. IsFiniteSet(1 .. Len(lines)) /\ Cardinality(1 .. Len(lines)) = IF 1 > Len(lines) THEN 0 ELSE Len(lines) - 1 + 1
    BY <2>1, FS_Interval, Zenon
  <2> QED BY <2>1, <2>2, Zenon DEF I
<1>6. ExistsBijection(I, K)
  BY <1>4, Zenon DEF ExistsBijection
<1> HIDE DEF K, b
<1>7. Cardinality(K) = Cardinality(I)
  BY <1>5, <1>6, FS_Bijection, Zenon
<1> QED BY <1>3, <1>5, <1>7, Zenon

\* A class that is not being loaded stays as it is.
LEMMA ClassSame ==
  ASSUME NEW f, ClassInv(f), data'[f] = data[f], LinesFor(f)' = LinesFor(f),
         LinesRead(f)' = LinesRead(f), \A m \in messages' : m[2] = f => m \in messages
  PROVE  ClassInv(f)'
<1>1. ReadInv(data[f], LinesFor(f), LinesRead(f))'
  BY Zenon DEF ClassInv, ReadInv, FirstOfKey
<1>2. Good(LinesFor(f))' => Good(LinesFor(f))
  BY Zenon DEF Good
<1> QED BY <1>1, <1>2, Zenon DEF ClassInv

\* Nothing is loaded before the options are read.
LEMMA NotLoaded == loads = 0 => \A n : n \notin 1 .. loads
  OBVIOUS

\* At first nothing is loaded.
LEMMA LoadInitial == Init => LoadInv
<1> SUFFICES ASSUME Init PROVE LoadInv
  OBVIOUS
<1>1. /\ loading = "none" /\ data = [f \in CfgFiles |-> << >>] /\ messages = {}
      /\ loads = 0 /\ phase = "cfgen"
  BY Zenon DEF Init, CfgInit
<1>2. DOMAIN data = CfgFiles /\ \A f \in CfgFiles : data[f] = << >>
  BY <1>1, Zenon
<1>3. ASSUME NEW f \in CfgFiles PROVE ClassInv(f)
  <2>1. LinesRead(f) = 0
    <3>1. loading # f
      BY <1>1, LoadOrderIs, Zenon
    <3> QED BY <3>1, <1>1, NotLoaded, Zenon DEF LinesRead
  <2>2. ReadInv(<< >>, LinesFor(f), 0)
    <3>1. DOMAIN << >> = {} /\ \A n : n \notin 1 .. 0
      OBVIOUS
    <3> QED BY <3>1, Zenon DEF ReadInv
  <2> QED BY <2>1, <2>2, <1>1, <1>2, Zenon DEF ClassInv
<1>4. loads \in 0 .. 4 /\ loading = "none" /\ phase # "look"
  BY <1>1
<1>5. \A f \in CfgFiles : loading # f
  BY <1>1, LoadOrderIs, Zenon
<1> QED BY <1>1, <1>2, <1>3, <1>4, <1>5, Zenon DEF LoadInv

\* So the disk and the command line may change before.
LEMMA LoadIdle ==
  ASSUME LoadInv, loads = 0, loading = "none", cfgVars' = cfgVars, loads' = loads, phase' # "look"
  PROVE  LoadInv'
<1>1. data' = data /\ messages' = messages /\ loading' = loading
  BY Zenon DEF cfgVars
<1>2. messages = {} /\ DOMAIN data = CfgFiles /\ loads \in 0 .. 4
  BY Zenon DEF LoadInv
<1>3. ASSUME NEW f \in CfgFiles PROVE ClassInv(f)'
  <2>1. loading # f
    BY LoadOrderIs, Zenon
  <2>2. LinesRead(f) = 0 /\ LinesRead(f)' = 0
    BY <2>1, <1>1, NotLoaded, Zenon DEF LinesRead
  <2>3. ReadInv(data[f], LinesFor(f), 0)
    BY <2>2, Zenon DEF LoadInv, ClassInv
  <2>4. ReadInv(data'[f], LinesFor(f)', 0)
    BY <2>3, <1>1, NothingRead, Zenon
  <2>5. ReadInv(data[f], LinesFor(f), LinesRead(f))'
    BY <2>2, <2>4, Zenon DEF ReadInv, FirstOfKey
  <2> QED BY <2>5, <1>1, <1>2, Zenon DEF ClassInv
<1>4. \A f \in CfgFiles : loading' # f
  BY <1>1, LoadOrderIs, Zenon
<1> QED BY <1>1, <1>2, <1>3, <1>4, Zenon DEF LoadInv

\* What is loaded for a class depends on the disk and its name only.
LEMMA SameLines ==
  ASSUME disk' = disk, setting' = setting
  PROVE  \A f : LinesFor(f)' = LinesFor(f)
  BY Zenon DEF LinesFor, NameFor, OnDisk

\* Afterwards nothing changes.
LEMMA LoadDone ==
  ASSUME LoadInv, loading = "none", loads = 4, cfgVars' = cfgVars, loads' = loads,
         disk' = disk, setting' = setting, phase' \in {"look", "end"}
  PROVE  LoadInv'
<1>1. data' = data /\ messages' = messages /\ loading' = loading /\ numlines' = numlines
  BY Zenon DEF cfgVars
<1>2. \A f : LinesFor(f)' = LinesFor(f)
  BY SameLines
<1>3. ASSUME NEW f \in CfgFiles PROVE ClassInv(f)'
  <2>1. LinesRead(f)' = LinesRead(f)
    BY <1>1, <1>2, Zenon DEF LinesRead
  <2>2. ClassInv(f)
    BY Zenon DEF LoadInv
  <2> QED BY <2>1, <2>2, <1>1, <1>2, ClassSame, Zenon
<1>4. /\ phase' \notin {"cfgen", "edit", "args"} /\ 4 \in 0 .. 4 /\ 4 # 0
  OBVIOUS
<1>5. DOMAIN data = CfgFiles
  BY DEF LoadInv
<1>6. \A f \in CfgFiles : loading' # f
  BY <1>1, LoadOrderIs, Zenon
<1> QED BY <1>1, <1>3, <1>4, <1>5, <1>6, Zenon DEF LoadInv

\* A file is opened.
LEMMA LoadOpen ==
  ASSUME DialogueInv, DiskInv, LoadInv, phase = "load", phase' = phase, disk' = disk,
         setting' = setting, loads < Len(LoadOrder), loads' = loads + 1,
         OpenFile(LoadOrder[loads + 1], OnDisk(NameFor(LoadOrder[loads + 1])))
  PROVE  LoadInv'
<1> DEFINE f == LoadOrder[loads + 1]
<1>1. /\ loading = "none" /\ loading' = f /\ unread' = LinesFor(f) /\ numlines' = 0
      /\ data' = data /\ messages' = messages
  BY Zenon DEF OpenFile, LinesFor
<1>2. \A g : LinesFor(g)' = LinesFor(g)
  BY SameLines
<1>3. /\ loads \in Nat /\ loads < 4 /\ loads + 1 \in 1 .. 4 /\ loads' > 0 /\ loads' \in 0 .. 4
      /\ \A n : n \in 1 .. loads + 1 <=> n \in 1 .. loads \/ n = loads + 1
      /\ \A n \in 1 .. loads : n \in 1 .. 4 /\ n # loads + 1
  BY LoadOrderIs DEF LoadInv
<1>4. f \in CfgFiles
  BY <1>3, LoadOrderIs
<1>5. \A n \in 1 .. loads : LoadOrder[n] # f
  BY <1>3, LoadOrderIs
<1> HIDE DEF f
<1>6. ASSUME NEW g \in CfgFiles PROVE LinesRead(g)' = LinesRead(g)
  <2>1. loading # g
    BY <1>1, LoadOrderIs, Zenon
  <2>2. CASE g = f
    <3>1. LinesRead(g) = 0
      BY <2>1, <2>2, <1>5, Zenon DEF LinesRead
    <3>2. LinesRead(g)' = 0
      BY <2>2, <1>1, Zenon DEF LinesRead
    <3> QED BY <3>1, <3>2
  <2>3. CASE g # f
    <3>1. (\E n \in 1 .. loads' : LoadOrder[n] = g) <=> (\E n \in 1 .. loads : LoadOrder[n] = g)
      BY <2>3, <1>3, Zenon DEF f
    <3> QED BY <2>1, <2>3, <3>1, <1>1, <1>2, Zenon DEF LinesRead
  <2> QED BY <2>2, <2>3
<1>7. ASSUME NEW g \in CfgFiles PROVE ClassInv(g)'
  <2>1. ClassInv(g)
    BY Zenon DEF LoadInv
  <2> QED BY <2>1, <1>1, <1>2, <1>6, ClassSame, Zenon
<1>8. LinesFor(f) \in Seq(Seq(Tokens))
  BY LinesForTyped
<1>9. numlines' \in 0 .. Len(LinesFor(f)) /\ unread' = RestOf(LinesFor(f), numlines')
  <2>1. 0 \in 0 .. Len(LinesFor(f)) /\ RestOf(LinesFor(f), 0) = LinesFor(f)
    BY <1>8, RestIs
  <2> QED BY <2>1, <1>1
<1>11. loading' = LoadOrder[loads'] /\ ~(loads' = 0) /\ phase' \notin {"cfgen", "edit", "args", "look", "end"}
  BY <1>1, <1>3 DEF f
<1>12. DOMAIN data' = CfgFiles
  BY <1>1 DEF LoadInv
<1>13. ASSUME NEW g \in CfgFiles, loading' = g
       PROVE  numlines' \in 0 .. Len(LinesFor(g)') /\ unread' = RestOf(LinesFor(g), numlines)'
  BY <1>1, <1>2, <1>9, <1>13, Zenon DEF RestOf
<1> QED BY <1>3, <1>7, <1>11, <1>12, <1>13, Zenon DEF LoadInv

\* The file that is being loaded.
LEMMA LoadingIs ==
  ASSUME DialogueInv, DiskInv, LoadInv, loading # "none"
  PROVE  /\ loading \in CfgFiles /\ loads \in 1 .. 4 /\ loading = LoadOrder[loads] /\ phase = "load"
         /\ LinesFor(loading) \in Seq(Seq(Tokens))
         /\ numlines \in 0 .. Len(LinesFor(loading))
         /\ unread = RestOf(LinesFor(loading), numlines)
         /\ LinesRead(loading) = numlines
         /\ \A g \in CfgFiles : g # loading => LinesRead(g) =
              IF \E n \in 1 .. loads : LoadOrder[n] = g THEN Len(LinesFor(g)) ELSE 0
<1>1. loads \in 0 .. 4 /\ loads > 0 /\ loading = LoadOrder[loads] /\ phase = "load"
  BY Zenon DEF LoadInv
<1>2. loads \in 1 .. 4
  BY <1>1
<1>3. loading \in CfgFiles
  BY <1>1, <1>2, LoadOrderIs, Zenon
<1>4. /\ numlines \in 0 .. Len(LinesFor(loading)) /\ unread = RestOf(LinesFor(loading), numlines)
  BY <1>3, Zenon DEF LoadInv
<1> QED BY <1>1, <1>2, <1>3, <1>4, LinesForTyped, Zenon DEF LinesRead

\* A line is read.
LEMMA LoadNext ==
  ASSUME DialogueInv, DiskInv, LoadInv, phase' = phase, disk' = disk, setting' = setting,
         loads' = loads, LoadLine
  PROVE  LoadInv'
<1> DEFINE f == loading
           L == LinesFor(f)
           k == numlines
<1>1. /\ f # "none" /\ unread # << >> /\ unread' = Tail(unread) /\ numlines' = k + 1 /\ loading' = f
      /\ Parses(Head(unread)) =>
           /\ data' = [data EXCEPT ![f] = Inserted(@, KeyOf(Head(unread)), ValueOf(Head(unread)))]
           /\ messages' = messages
      /\ ~Parses(Head(unread)) => data' = data /\ messages' = messages \cup {<< "parse", f >>}
  BY Zenon DEF LoadLine
<1>2. /\ f \in CfgFiles /\ loads \in 1 .. 4 /\ f = LoadOrder[loads] /\ phase = "load"
      /\ L \in Seq(Seq(Tokens)) /\ k \in 0 .. Len(L) /\ unread = RestOf(L, k)
      /\ LinesRead(f) = k
  BY <1>1, LoadingIs
<1>3. \A g : LinesFor(g)' = LinesFor(g)
  BY SameLines
<1> HIDE DEF f, L, k
<1>4. k < Len(L) /\ k \in Nat
  <2>1. k # Len(L) /\ Len(L) \in Nat
    BY <1>1, <1>2, RestIs
  <2> QED BY <2>1, <1>2
<1>5. Head(unread) = L[k + 1] /\ unread' = RestOf(L, k + 1) /\ k + 1 \in 0 .. Len(L) /\ k + 1 \in DOMAIN L
  <2>1. k + 1 \in 0 .. Len(L) /\ k + 1 \in DOMAIN L
    BY <1>2, <1>4
  <2>2. Head(unread) = L[k + 1] /\ unread' = RestOf(L, k + 1)
    BY <1>1, <1>2, <1>4, RestIs
  <2> QED BY <2>1, <2>2
<1>6. DOMAIN data = CfgFiles
  BY DEF LoadInv
<1>7. ASSUME NEW g \in CfgFiles, g # f PROVE ClassInv(g)'
  <2>1. data'[g] = data[g]
    <3>1. CASE Parses(Head(unread))
      <4>1. data' = [data EXCEPT ![f] = Inserted(@, KeyOf(Head(unread)), ValueOf(Head(unread)))]
        BY <3>1, <1>1, Zenon
      <4> QED BY <4>1, <1>6, <1>7
    <3>2. CASE ~Parses(Head(unread))
      BY <3>2, <1>1, Zenon
    <3> QED BY <3>1, <3>2
  <2>2. LinesRead(g)' = LinesRead(g)
    BY <1>1, <1>3, <1>7, Zenon DEF LinesRead, f
  <2>3. \A m \in messages' : m[2] = g => m \in messages
    <3>1. << "parse", f >>[2] = f
      OBVIOUS
    <3> QED BY <3>1, <1>1, <1>7, Zenon
  <2>4. ClassInv(g)
    BY Zenon DEF LoadInv
  <2> QED BY <2>1, <2>2, <2>3, <2>4, <1>3, ClassSame, Zenon
<1>8. ClassInv(f)
  BY <1>2, Zenon DEF LoadInv
<1>9. ReadInv(data[f], L, k)
  BY <1>2, <1>8, Zenon DEF ClassInv, L
<1>10. ReadInv(data'[f], L, k + 1) /\ (Good(L) => \A m \in messages' : m[2] # f)
  <2>1. CASE Parses(L[k + 1])
    <3>1. data'[f] = Inserted(data[f], KeyOf(L[k + 1]), ValueOf(L[k + 1])) /\ messages' = messages
      BY <2>1, <1>1, <1>2, <1>5, <1>6
    <3>2. ReadInv(data'[f], L, k + 1)
      BY <3>1, <2>1, <1>4, <1>9, LineInserted
    <3> QED BY <3>1, <3>2, <1>8, Zenon DEF ClassInv, L
  <2>2. CASE ~Parses(L[k + 1])
    <3>1. data' = data
      BY <2>2, <1>1, <1>5, Zenon
    <3>2. ReadInv(data'[f], L, k + 1)
      BY <3>1, <2>2, <1>4, <1>9, LineSkipped
    <3>3. ~Good(L)
      BY <2>2, <1>5, Zenon DEF Good
    <3> QED BY <3>2, <3>3, Zenon
  <2> QED BY <2>1, <2>2
<1>11. ASSUME NEW g \in CfgFiles, g = f PROVE ClassInv(g)'
  <2>1. LinesRead(g)' = k + 1
    BY <1>1, <1>11, Zenon DEF LinesRead
  <2>2. LinesFor(g)' = L
    BY <1>3, <1>11, Zenon DEF L
  <2>3. ReadInv(data[g], LinesFor(g), LinesRead(g))'
    BY <2>1, <2>2, <1>10, <1>11, Zenon DEF ReadInv, FirstOfKey
  <2>4. Good(LinesFor(g))' => Good(L)
    BY <2>2, Zenon DEF Good
  <2> QED BY <2>3, <2>4, <1>10, <1>11, Zenon DEF ClassInv
<1>12. \A g \in CfgFiles : ClassInv(g)'
  BY <1>7, <1>11
<1>13. ASSUME NEW g \in CfgFiles, loading' = g
       PROVE  numlines' \in 0 .. Len(LinesFor(g)') /\ unread' = RestOf(LinesFor(g), numlines)'
  <2>1. LinesFor(g)' = L
    BY <1>1, <1>3, <1>13, Zenon DEF L
  <2> QED BY <2>1, <1>1, <1>5, Zenon DEF RestOf
<1>14. DOMAIN data' = CfgFiles
  BY <1>1, <1>6
<1>15. loads' > 0 /\ ~(loads' = 0) /\ loads' \in 0 .. 4
  BY <1>2
<1>16. loading' = LoadOrder[loads'] /\ phase' = "load"
  BY <1>1, <1>2
<1>17. phase' \notin {"cfgen", "edit", "args", "look", "end"}
  BY <1>16
<1> QED BY <1>12, <1>13, <1>14, <1>15, <1>16, <1>17, Zenon DEF LoadInv

\* A file is read to its end.
LEMMA LoadEnd ==
  ASSUME DialogueInv, DiskInv, LoadInv, phase' = phase, disk' = disk, setting' = setting,
         loads' = loads, EndLoad
  PROVE  LoadInv'
<1> DEFINE f == loading
           L == LinesFor(f)
<1>1. /\ f # "none" /\ unread = << >> /\ loading' = "none" /\ data' = data
      /\ messages' = IF Cardinality(DOMAIN data[f]) # numlines
                       THEN messages \cup {<< "check", f >>} ELSE messages
  BY Zenon DEF EndLoad
<1>2. /\ f \in CfgFiles /\ loads \in 1 .. 4 /\ f = LoadOrder[loads] /\ phase = "load"
      /\ L \in Seq(Seq(Tokens)) /\ numlines \in 0 .. Len(L) /\ unread = RestOf(L, numlines)
      /\ LinesRead(f) = numlines
      /\ \A g \in CfgFiles : g # f => LinesRead(g) =
           IF \E n \in 1 .. loads : LoadOrder[n] = g THEN Len(LinesFor(g)) ELSE 0
  BY <1>1, LoadingIs
<1>3. \A g : LinesFor(g)' = LinesFor(g)
  BY SameLines
<1> HIDE DEF f, L
<1>4. numlines = Len(L)
  BY <1>1, <1>2, RestIs
<1>5. loads \in 1 .. loads /\ loads > 0 /\ ~(loads = 0) /\ loads \in 0 .. 4
  BY <1>2
<1>6. \A g \in CfgFiles : loading' # g
  BY <1>1, LoadOrderIs, Zenon
<1>7. ASSUME NEW g \in CfgFiles PROVE LinesRead(g)' = LinesRead(g)
  <2>1. LinesRead(g)' = IF \E n \in 1 .. loads : LoadOrder[n] = g THEN Len(LinesFor(g)) ELSE 0
    BY <1>3, <1>6, Zenon DEF LinesRead
  <2>2. CASE g = f
    BY <2>1, <2>2, <1>2, <1>4, <1>5, Zenon DEF L
  <2>3. CASE g # f
    BY <2>1, <2>3, <1>2, Zenon
  <2> QED BY <2>2, <2>3
<1>8. ASSUME NEW g \in CfgFiles, g # f PROVE ClassInv(g)'
  <2>1. \A m \in messages' : m[2] = g => m \in messages
    <3>1. << "check", f >>[2] = f
      OBVIOUS
    <3> QED BY <3>1, <1>1, <1>8, Zenon
  <2>2. ClassInv(g)
    BY Zenon DEF LoadInv
  <2> QED BY <2>1, <2>2, <1>1, <1>3, <1>7, ClassSame, Zenon
<1>9. ASSUME NEW g \in CfgFiles, g = f PROVE ClassInv(g)'
  <2>1. ClassInv(g)
    BY Zenon DEF LoadInv
  <2>2. LinesFor(g) = L /\ LinesRead(g) = Len(L)
    BY <1>2, <1>4, <1>9, Zenon DEF L
  <2>3. Good(L) => messages' = messages
    <3>1. ReadInv(data[g], L, Len(L))
      BY <2>1, <2>2, Zenon DEF ClassInv
    <3>2. Good(L) => Cardinality(DOMAIN data[g]) = Len(L)
      BY <3>1, <1>2, GoodCounts
    <3> QED BY <3>2, <1>1, <1>4, <1>9, Zenon
  <2>4. ReadInv(data[g], LinesFor(g), LinesRead(g))'
    BY <2>1, <1>1, <1>3, <1>7, Zenon DEF ClassInv, ReadInv, FirstOfKey
  <2>5. Good(LinesFor(g))' => Good(L)
    BY <2>2, <1>3, Zenon DEF Good
  <2> QED BY <2>1, <2>2, <2>3, <2>4, <2>5, Zenon DEF ClassInv
<1>10. \A g \in CfgFiles : ClassInv(g)'
  BY <1>8, <1>9
<1>11. DOMAIN data' = CfgFiles
  BY <1>1 DEF LoadInv
<1>12. phase' \notin {"cfgen", "edit", "args", "look", "end"}
  BY <1>2
<1> QED BY <1>1, <1>5, <1>6, <1>10, <1>11, <1>12, Zenon DEF LoadInv

-----------------------------------------------------------------------------
(* What is loaded *)

\* When all is loaded the strings are as told, the files are there, and every
\* line of them is read.
LEMMA AllIsLoaded ==
  ASSUME DialogueInv, DiskInv, ArgInv, LoadInv, phase \in {"look", "end"}, loads = 4
  PROVE  /\ \A f \in CfgFiles : LinesFor(f) = OnDisk(Told(f))
         /\ \A f \in CfgFiles : ReadInv(data[f], LinesFor(f), Len(LinesFor(f)))
         /\ \A g \in CfgFiles : << g >> \in DOMAIN disk /\ FileInv(g)
<1>1. loading = "none" /\ optind = Len(args) /\ output = 4
  <2>1. phase # "load" /\ loads > 0 /\ phase # "cfgen"
    OBVIOUS
  <2> QED BY <2>1, Zenon DEF LoadInv, ArgInv, DiskInv
<1>2. ASSUME NEW f \in CfgFiles PROVE LinesFor(f) = OnDisk(Told(f))
  <2>1. f \in Strings
    BY DEF CfgFiles, Strings, OptionOf
  <2>2. setting[f] = Told(f)
    BY <2>1, <1>1, SettingIsTold
  <2> QED BY <2>2, Zenon DEF LinesFor, NameFor
<1>3. ASSUME NEW f \in CfgFiles PROVE ReadInv(data[f], LinesFor(f), Len(LinesFor(f)))
  <2>1. loading # f
    BY <1>1, LoadOrderIs, Zenon
  <2>2. \E n \in 1 .. loads : LoadOrder[n] = f
    BY LoadOrderIs, Zenon
  <2>3. LinesRead(f) = Len(LinesFor(f))
    BY <2>1, <2>2, Zenon DEF LinesRead
  <2> QED BY <2>3, Zenon DEF LoadInv, ClassInv
<1>4. ASSUME NEW g \in CfgFiles PROVE << g >> \in DOMAIN disk /\ FileInv(g)
  <2>1. \E n \in 1 .. 4 : g = FileOrder[n]
    BY FileOrderIs
  <2>2. DOMAIN disk = {<< FileOrder[n] >> : n \in 1 .. 4}
    BY <1>1, Zenon DEF DiskInv
  <2>3. << g >> \in DOMAIN disk
    BY <2>1, <2>2, Zenon
  <2> QED BY <2>3, Zenon DEF DiskInv
<1> QED BY <1>2, <1>3, <1>4

\* The first line of a key gives its value, whatever the lines before it are.
LEMMA FirstIsLoaded ==
  ASSUME NEW map, NEW lines \in Seq(Seq(Tokens)), ReadInv(map, lines, Len(lines)),
         NEW key \in Tokens, key # Equals, key # Semicolon, NEW v, IsValue(v), Endless(v),
         FirstFor(lines, key, v)
  PROVE  << key >> \in DOMAIN map /\ map[<< key >>] = v
<1>1. PICK n \in DOMAIN lines : /\ lines[n] = LineFor(key, v)
                                /\ \A m \in 1 .. n - 1 : lines[m] = << >> \/ Head(lines[m]) # key
  BY Zenon DEF FirstFor
<1>2. /\ KeyOf(lines[n]) = << key >> /\ ValueOf(lines[n]) = v /\ Parses(lines[n])
  BY <1>1, ParseLine
<1>3. n \in 1 .. Len(lines) /\ \A m \in 1 .. n - 1 : lines[m] \in Seq(Tokens)
  OBVIOUS
<1>4. \A m \in 1 .. n - 1 : KeyOf(lines[m]) # << key >>
  BY <1>1, <1>3, KeyBegins
<1>5. FirstOfKey(lines, n)
  BY <1>2, <1>4, Zenon DEF FirstOfKey
<1> QED BY <1>2, <1>3, <1>5, Zenon DEF ReadInv

\* The lines cfgen writes are good, and have the keys of their table.
LEMMA WrittenAreGood ==
  ASSUME DialogueInv, CleanDialogue, NEW g \in CfgFiles
  PROVE  /\ Good(LinesOf(g))
         /\ \A map : ReadInv(map, LinesOf(g), Len(LinesOf(g))) =>
              DOMAIN map = {<< Table[g][i].key >> : i \in DOMAIN Table[g]}
<1> DEFINE L == LinesOf(g)
<1>1. /\ DOMAIN L = DOMAIN Table[g] /\ Len(L) = Len(Table[g])
      /\ \A i \in DOMAIN Table[g] : L[i] = LineFor(Table[g][i].key, kv[g][i])
  BY LinesOfIs
<1>2. /\ DOMAIN Table[g] = 1 .. Len(Table[g])
      /\ \A i, j \in DOMAIN Table[g] : Table[g][i].key = Table[g][j].key => i = j
  BY TableIs DEF DialogueInv
<1> HIDE DEF L
<1>3. \A i \in DOMAIN Table[g] : Parses(L[i]) /\ KeyOf(L[i]) = << Table[g][i].key >>
  <2> SUFFICES ASSUME NEW i \in DOMAIN Table[g]
               PROVE  Parses(L[i]) /\ KeyOf(L[i]) = << Table[g][i].key >>
    OBVIOUS
  <2>1. /\ Table[g][i].key \in Tokens /\ Table[g][i].key # Equals /\ Table[g][i].key # Semicolon
        /\ IsValue(kv[g][i]) /\ Endless(kv[g][i])
    BY ValueIs
  <2>2. /\ Parses(LineFor(Table[g][i].key, kv[g][i]))
        /\ KeyOf(LineFor(Table[g][i].key, kv[g][i])) = << Table[g][i].key >>
    BY <2>1, ParseLine
  <2> QED BY <2>2, <1>1, Zenon
<1>4. \A i, j \in DOMAIN Table[g] : KeyOf(L[i]) = KeyOf(L[j]) => i = j
  <2>1. ASSUME NEW i \in DOMAIN Table[g], NEW j \in DOMAIN Table[g], KeyOf(L[i]) = KeyOf(L[j])
        PROVE  i = j
    <3>1. << Table[g][i].key >> = << Table[g][j].key >>
      BY <2>1, <1>3, Zenon
    <3>2. Table[g][i].key = Table[g][j].key
      BY <3>1, NamesDiffer, Zenon
    <3> QED BY <3>2, <1>2
  <2> QED BY <2>1
<1>5. Good(L)
  BY <1>1, <1>3, <1>4, Zenon DEF Good
<1>6. ASSUME NEW map, ReadInv(map, L, Len(L))
      PROVE  DOMAIN map = {<< Table[g][i].key >> : i \in DOMAIN Table[g]}
  <2>1. DOMAIN map = {KeyOf(L[n]) : n \in {n \in DOMAIN Table[g] : Parses(L[n])}}
    BY <1>1, <1>2, <1>6, Zenon DEF ReadInv
  <2> QED BY <2>1, <1>3, Zenon
<1> QED BY <1>5, <1>6, Zenon DEF L

\* Hence, what the two programs promise each other.
LEMMA WrittenIsLoaded ==
  ASSUME DialogueInv, DiskInv, ArgInv, LoadInv
  PROVE  LoadedIsWritten /\ FilesAsTold
<1>0. CASE ~AllLoaded
  BY <1>0, Zenon DEF LoadedIsWritten, FilesAsTold
<1>1. CASE AllLoaded
  <2>1. /\ phase \in {"look", "end"} /\ loads = 4 /\ CleanDialogue
    BY <1>1, LoadOrderIs, Zenon DEF AllLoaded
  <2>2. /\ \A f \in CfgFiles : LinesFor(f) = OnDisk(Told(f))
        /\ \A f \in CfgFiles : ReadInv(data[f], LinesFor(f), Len(LinesFor(f)))
        /\ \A g \in CfgFiles : << g >> \in DOMAIN disk /\ FileInv(g)
    BY <2>1, AllIsLoaded
  <2>3. ASSUME NEW f \in CfgFiles, NEW g \in CfgFiles, Told(f) = << g >>
        PROVE  LinesFor(f) = disk[<< g >>] /\ ReadInv(data[f], disk[<< g >>], Len(disk[<< g >>]))
    BY <2>2, <2>3, Zenon DEF OnDisk
  <2>4. ASSUME NEW f \in CfgFiles, NEW g \in CfgFiles, Told(f) = << g >>,
               NEW i \in DOMAIN Table[g], << g, Table[g][i].key >> \notin edits
        PROVE  /\ << Table[g][i].key >> \in DOMAIN data[f]
               /\ data[f][<< Table[g][i].key >>] = kv[g][i]
    <3>1. /\ disk[<< g >>] \in Seq(Seq(Tokens))
          /\ FirstFor(disk[<< g >>], Table[g][i].key, kv[g][i])
      BY <2>2, <2>4, Zenon DEF FileInv
    <3>2. /\ Table[g][i].key \in Tokens /\ Table[g][i].key # Equals /\ Table[g][i].key # Semicolon
          /\ IsValue(kv[g][i]) /\ Endless(kv[g][i])
      BY <2>1, ValueIs
    <3>3. ReadInv(data[f], disk[<< g >>], Len(disk[<< g >>]))
      BY <2>3, <2>4
    <3> QED BY <3>1, <3>2, <3>3, FirstIsLoaded
  <2>5. ASSUME NEW f \in CfgFiles, NEW g \in CfgFiles, Told(f) = << g >>, Untouched(g)
        PROVE  /\ \A m \in messages : m[2] # f
               /\ DOMAIN data[f] = {<< Table[g][i].key >> : i \in DOMAIN Table[g]}
    <3>1. disk[<< g >>] = LinesOf(g)
      BY <2>2, <2>5, Zenon DEF FileInv
    <3>2. LinesFor(f) = LinesOf(g) /\ ReadInv(data[f], LinesOf(g), Len(LinesOf(g)))
      BY <3>1, <2>3, <2>5, Zenon
    <3>3. /\ Good(LinesOf(g))
          /\ ReadInv(data[f], LinesOf(g), Len(LinesOf(g))) =>
               DOMAIN data[f] = {<< Table[g][i].key >> : i \in DOMAIN Table[g]}
      BY <2>1, WrittenAreGood, Zenon
    <3>4. Good(LinesFor(f)) => \A m \in messages : m[2] # f
      BY Zenon DEF LoadInv, ClassInv
    <3> QED BY <3>2, <3>3, <3>4, Zenon
  <2>6. ASSUME NEW f \in CfgFiles, Told(f) \notin DOMAIN disk
        PROVE  DOMAIN data[f] = {}
    <3>1. LinesFor(f) = << >>
      BY <2>2, <2>6, Zenon DEF OnDisk
    <3>2. ReadInv(data[f], << >>, Len(<< >>))
      BY <3>1, <2>2, Zenon
    <3>3. \A n : n \notin 1 .. Len(<< >>)
      OBVIOUS
    <3> QED BY <3>2, <3>3, Zenon DEF ReadInv
  <2>7. LoadedIsWritten
    BY <2>4, <2>5, Zenon DEF LoadedIsWritten
  <2>8. FilesAsTold
    BY <2>5, <2>6, Zenon DEF FilesAsTold
  <2> QED BY <2>7, <2>8
<1> QED BY <1>0, <1>1

-----------------------------------------------------------------------------
(* What is looked up *)

\* A file of cfgen's own table has a key, and a number by default where one is
\* looked for.
Has(file, num, key) ==
  /\ file \in CfgFiles
  /\ \E i \in DOMAIN GeneratorTable[file] :
       /\ GeneratorTable[file][i].key = key
       /\ num => IsNumber(GeneratorTable[file][i].default)

\* Lookups of such keys.
Provided(lookups) ==
  \E S : lookups \in Seq(S) /\ \A l \in S : Has(l.file, l.num, l.key)

\* Joined lookups have keys when both do.
LEMMA ProvidedJoined ==
  ASSUME NEW s, NEW t, Provided(s), Provided(t)
  PROVE  Provided(s \o t)
<1>1. PICK S : s \in Seq(S) /\ \A l \in S : Has(l.file, l.num, l.key)
  BY Zenon DEF Provided
<1>2. PICK T : t \in Seq(T) /\ \A l \in T : Has(l.file, l.num, l.key)
  BY Zenon DEF Provided
<1>3. s \o t \in Seq(S \cup T)
  <2>1. s \in Seq(S \cup T) /\ t \in Seq(S \cup T)
    BY <1>1, <1>2
  <2> QED BY <2>1
<1>4. \A l \in S \cup T : Has(l.file, l.num, l.key)
  BY <1>1, <1>2, Zenon
<1> QED BY <1>3, <1>4, Zenon DEF Provided

\* The lookups of keys that are there.
LEMMA LookupProvided ==
  ASSUME NEW stage, NEW file, NEW num, NEW K, NEW keys \in Seq(K),
         \A k \in K : Has(file, num, k)
  PROVE  Provided(Lookup(stage, file, num, keys))
<1> DEFINE Made(k) == [stage |-> stage, file |-> file, num |-> num, key |-> k]
           S == {Made(k) : k \in K}
<1>1. DOMAIN keys = 1 .. Len(keys) /\ Len(keys) \in Nat /\ \A i \in DOMAIN keys : keys[i] \in K
  OBVIOUS
<1>2. Lookup(stage, file, num, keys) = [i \in 1 .. Len(keys) |-> Made(keys[i])]
  BY <1>1, Zenon DEF Lookup
<1>3. \A l \in S : Has(l.file, l.num, l.key)
  <2>1. \A k : Made(k).file = file /\ Made(k).num = num /\ Made(k).key = k
    OBVIOUS
  <2> HIDE DEF Made
  <2> QED BY <2>1, Zenon
<1> HIDE DEF Made
<1>4. \A i \in 1 .. Len(keys) : Made(keys[i]) \in S
  BY <1>1, Zenon
<1> HIDE DEF S
<1>5. Lookup(stage, file, num, keys) \in Seq(S)
  BY <1>1, <1>2, <1>4
<1> QED BY <1>3, <1>5, Zenon DEF Provided

\* The constructors' entries.
LEMMA EntriesAre ==
  ASSUME NEW file \in CfgFiles, NEW keys, NEW textKeys,
         GeneratorTable[file] = Entries(keys, textKeys), NEW n \in DOMAIN keys
  PROVE  /\ Has(file, FALSE, keys[n])
         /\ keys[n] \notin textKeys => Has(file, TRUE, keys[n])
<1> DEFINE e == [key |-> keys[n], default |-> << IF keys[n] \in textKeys THEN "text" ELSE "num" >>]
<1>1. n \in DOMAIN GeneratorTable[file] /\ GeneratorTable[file][n] = e
  BY DEF Entries
<1>2. e.key = keys[n] /\ (keys[n] \notin textKeys => e.default = << "num" >>)
  OBVIOUS
<1>3. IsNumber(<< "num" >>)
  BY DEF IsNumber
<1> HIDE DEF e
<1> QED BY <1>1, <1>2, <1>3, Zenon DEF Has

\* The keys of a file are there, and are numbers unless said to be texts.
LEMMA EntriesHave ==
  ASSUME NEW file \in CfgFiles, NEW keys, NEW textKeys,
         GeneratorTable[file] = Entries(keys, textKeys),
         NEW K, \A k \in K : \E n \in DOMAIN keys : keys[n] = k
  PROVE  \A k \in K : Has(file, FALSE, k) /\ (k \notin textKeys => Has(file, TRUE, k))
<1> SUFFICES ASSUME NEW k \in K
             PROVE  Has(file, FALSE, k) /\ (k \notin textKeys => Has(file, TRUE, k))
  OBVIOUS
<1>1. PICK n \in DOMAIN keys : keys[n] = k
  OBVIOUS
<1>2. Has(file, FALSE, keys[n]) /\ (keys[n] \notin textKeys => Has(file, TRUE, keys[n]))
  BY EntriesAre
<1> QED BY <1>1, <1>2, Zenon

\* The table of each file.
LEMMA GeneratorTableIs ==
  /\ GeneratorTable["pulsar"] = PulsarTable
  /\ GeneratorTable["observatory"] = ObservatoryTable
  /\ GeneratorTable["project"] = ProjectTable
  /\ GeneratorTable["scan"] = ScanTable
  /\ "pulsar" \in CfgFiles /\ "observatory" \in CfgFiles
  /\ "project" \in CfgFiles /\ "scan" \in CfgFiles
  BY DEF GeneratorTable, CfgFiles

\* What is looked up in the pulsar file.
PulsarTexts ==
  { "COORD_MD", "RA", "DEC" }

PulsarNumbers ==
  { "DM", "EQUINOX", "RM" }

\* PulsarTable has them.
LEMMA PulsarHas ==
  /\ \A k \in PulsarTexts : Has("pulsar", FALSE, k)
  /\ \A k \in PulsarNumbers : Has("pulsar", TRUE, k)
<1> DEFINE keys == << "COORD_MD", "DEC", "DM", "EQUINOX", "RA", "RM" >>
           textKeys == { "COORD_MD" }
<1>1. GeneratorTable["pulsar"] = Entries(keys, textKeys) /\ "pulsar" \in CfgFiles
  BY GeneratorTableIs DEF PulsarTable
<1>2. \A k \in PulsarTexts : \E n \in DOMAIN keys : keys[n] = k
  BY DEF PulsarTexts
<1>3. \A k \in PulsarNumbers : \E n \in DOMAIN keys : keys[n] = k
  BY DEF PulsarNumbers
<1>4. \A k \in PulsarNumbers : k \notin textKeys
  BY DEF PulsarNumbers
<1> HIDE DEF keys, textKeys
<1>5. \A k \in PulsarTexts : Has("pulsar", FALSE, k)
  BY <1>1, <1>2, EntriesHave, Zenon
<1>6. \A k \in PulsarNumbers : k \notin textKeys => Has("pulsar", TRUE, k)
  BY <1>1, <1>3, EntriesHave, Zenon
<1> QED BY <1>4, <1>5, <1>6, Zenon

\* What is looked up in the observatory file.
ObservatoryTexts ==
  { "TELESCOP", "FRONTEND", "FD_POLN", "BACKEND", "BECONFIG", "PROC_CMD" }

ObservatoryNumbers ==
  { "ANT_X", "ANT_Y", "ANT_Z", "IBEAM", "NRCVR", "FD_HAND", "FD_SANG", "FD_XYPH",
    "BE_PHASE", "BE_DCC", "BE_DELAY", "TCYCLE", "NBITS" }

\* ObservatoryTable has them.
LEMMA ObservatoryHas ==
  /\ \A k \in ObservatoryTexts : Has("observatory", FALSE, k)
  /\ \A k \in ObservatoryNumbers : Has("observatory", TRUE, k)
<1> DEFINE keys == << "ANT_X", "ANT_Y", "ANT_Z", "BACKEND", "BECONFIG", "BE_DCC",
                     "BE_DELAY", "BE_PHASE", "FD_HAND", "FD_POLN", "FD_SANG",
                     "FD_XYPH", "FRONTEND", "IBEAM", "NBITS", "NRCVR", "PROC_CMD",
                     "SIGNINT", "TCYCLE", "TELESCOP", "ZERO_OFF" >>
           textKeys == { "BACKEND", "BECONFIG", "FD_POLN", "PROC_CMD", "TELESCOP" }
<1>1. GeneratorTable["observatory"] = Entries(keys, textKeys) /\ "observatory" \in CfgFiles
  BY GeneratorTableIs DEF ObservatoryTable
<1>2. \A k \in ObservatoryTexts : \E n \in DOMAIN keys : keys[n] = k
  BY DEF ObservatoryTexts
<1>3. \A k \in ObservatoryNumbers : \E n \in DOMAIN keys : keys[n] = k
  BY DEF ObservatoryNumbers
<1>4. \A k \in ObservatoryNumbers : k \notin textKeys
  BY DEF ObservatoryNumbers
<1> HIDE DEF keys, textKeys
<1>5. \A k \in ObservatoryTexts : Has("observatory", FALSE, k)
  BY <1>1, <1>2, EntriesHave, Zenon
<1>6. \A k \in ObservatoryNumbers : k \notin textKeys => Has("observatory", TRUE, k)
  BY <1>1, <1>3, EntriesHave, Zenon
<1> QED BY <1>4, <1>5, <1>6, Zenon

\* What is looked up in the project file.
ProjectTexts ==
  { "OBSERVER", "PROJID", "OBS_MODE", "CAL_MODE" }

ProjectNumbers ==
  { "OBSFREQ", "OBSBW", "CAL_FREQ", "CAL_DCYC", "CAL_PHS", "CAL_NPHS", "NSBLK",
    "NSTOT" }

\* ProjectTable has them.
LEMMA ProjectHas ==
  /\ \A k \in ProjectTexts : Has("project", FALSE, k)
  /\ \A k \in ProjectNumbers : Has("project", TRUE, k)
<1> DEFINE keys == << "CAL_DCYC", "CAL_FREQ", "CAL_MODE", "CAL_NPHS", "CAL_PHS",
                     "NSBLK", "NSTOT", "OBSBW", "OBSERVER", "OBSFREQ", "OBSNCHAN",
                     "OBS_MODE", "PROJID" >>
           textKeys == { "CAL_MODE", "OBSERVER", "OBS_MODE", "PROJID" }
<1>1. GeneratorTable["project"] = Entries(keys, textKeys) /\ "project" \in CfgFiles
  BY GeneratorTableIs DEF ProjectTable
<1>2. \A k \in ProjectTexts : \E n \in DOMAIN keys : keys[n] = k
  BY DEF ProjectTexts
<1>3. \A k \in ProjectNumbers : \E n \in DOMAIN keys : keys[n] = k
  BY DEF ProjectNumbers
<1>4. \A k \in ProjectNumbers : k \notin textKeys
  BY DEF ProjectNumbers
<1> HIDE DEF keys, textKeys
<1>5. \A k \in ProjectTexts : Has("project", FALSE, k)
  BY <1>1, <1>2, EntriesHave, Zenon
<1>6. \A k \in ProjectNumbers : k \notin textKeys => Has("project", TRUE, k)
  BY <1>1, <1>3, EntriesHave, Zenon
<1> QED BY <1>4, <1>5, <1>6, Zenon

\* What is looked up in the scan file.
ScanTexts ==
  { "PNT_ID", "SRC_NAME", "STT_CRD1", "STT_CRD2", "TRK_MODE", "STP_CRD1",
    "STP_CRD2", "FD_MODE", "POL_TYPE", "DDS_MTHD", "SC_MTHD", "CAL_MTHD",
    "CAL_FILE", "RFI_MTHD", "INT_TYPE", "INT_UNIT", "SCALE" }

ScanNumbers ==
  { "NUMCHANS", "NPOL", "BMAJ", "BMIN", "BPA", "SCANLEN", "FD_REQ", "NCHNOFFS" }

\* ScanTable has them.
LEMMA ScanHas ==
  /\ \A k \in ScanTexts : Has("scan", FALSE, k)
  /\ \A k \in ScanNumbers : Has("scan", TRUE, k)
<1> DEFINE keys == << "BMAJ", "BMIN", "BPA", "CAL_FILE", "CAL_MTHD", "CHAN_BW",
                     "DATE-OBS", "DDS_MTHD", "FD_MODE", "FD_REQ", "INT_TYPE",
                     "INT_UNIT", "NCHNOFFS", "NPOL", "NSUBOFFS", "NUMCHANS",
                     "PNT_ID", "POL_TYPE", "RFI_MTHD", "SCALE", "SCANLEN",
                     "SC_MTHD", "SRC_NAME", "STP_CRD1", "STP_CRD2", "STT_CRD1",
                     "STT_CRD2", "STT_IMJD", "STT_LST", "STT_OFFS", "STT_SMJD",
                     "TRK_MODE" >>
           textKeys == { "CAL_FILE", "CAL_MTHD", "DDS_MTHD", "FD_MODE", "INT_TYPE",
                    "INT_UNIT", "PNT_ID", "POL_TYPE", "RFI_MTHD", "SCALE",
                    "SC_MTHD", "SRC_NAME", "TRK_MODE" }
<1>1. GeneratorTable["scan"] = Entries(keys, textKeys) /\ "scan" \in CfgFiles
  BY GeneratorTableIs DEF ScanTable
<1>2. \A k \in ScanTexts : \E n \in DOMAIN keys : keys[n] = k
  BY DEF ScanTexts
<1>3. \A k \in ScanNumbers : \E n \in DOMAIN keys : keys[n] = k
  BY DEF ScanNumbers
<1>4. \A k \in ScanNumbers : k \notin textKeys
  BY DEF ScanNumbers
<1> HIDE DEF keys, textKeys
<1>5. \A k \in ScanTexts : Has("scan", FALSE, k)
  BY <1>1, <1>2, EntriesHave, Zenon
<1>6. \A k \in ScanNumbers : k \notin textKeys => Has("scan", TRUE, k)
  BY <1>1, <1>3, EntriesHave, Zenon
<1> QED BY <1>4, <1>5, <1>6, Zenon

\* cfgen's own table has all that the converter looks up.
LEMMA LookupsProvided == Provided(Lookups)
<1>1. Provided(OpenLookups)
  <2>1. Provided(Lookup("open", "scan", TRUE, << "NUMCHANS" >>))
    <3>1. << "NUMCHANS" >> \in Seq(ScanNumbers)
      BY DEF ScanNumbers
    <3> QED BY <3>1, ScanHas, LookupProvided
  <2> QED BY <2>1 DEF OpenLookups
<1>2. Provided(SanityLookups)
  <2>1. Provided(Lookup("sanity", "scan", TRUE, << "NUMCHANS", "NPOL" >>))
    <3>1. << "NUMCHANS", "NPOL" >> \in Seq(ScanNumbers)
      BY DEF ScanNumbers
    <3> QED BY <3>1, ScanHas, LookupProvided
  <2>2. Provided(Lookup("sanity", "pulsar", TRUE, << "DM" >>))
    <3>1. << "DM" >> \in Seq(PulsarNumbers)
      BY DEF PulsarNumbers
    <3> QED BY <3>1, PulsarHas, LookupProvided
  <2>3. Provided(Lookup("sanity", "project", TRUE, << "OBSFREQ" >>))
    <3>1. << "OBSFREQ" >> \in Seq(ProjectNumbers)
      BY DEF ProjectNumbers
    <3> QED BY <3>1, ProjectHas, LookupProvided
  <2> QED BY <2>1, <2>2, <2>3, ProvidedJoined, Zenon DEF SanityLookups
<1>3. Provided(PrimaryLookups)
  <2> DEFINE L1 == Lookup("primary", "project", FALSE, << "OBSERVER", "PROJID" >>)
             L2 == Lookup("primary", "observatory", FALSE, << "TELESCOP" >>)
             L3 == Lookup("primary", "observatory", TRUE, << "ANT_X", "ANT_Y", "ANT_Z" >>)
             L4 == Lookup("primary", "observatory", FALSE, << "FRONTEND" >>)
             L5 == Lookup("primary", "observatory", TRUE, << "IBEAM", "NRCVR" >>)
             L6 == Lookup("primary", "observatory", FALSE, << "FD_POLN" >>)
             L7 == Lookup("primary", "observatory", TRUE, << "FD_HAND", "FD_SANG", "FD_XYPH" >>)
             L8 == Lookup("primary", "observatory", FALSE, << "BACKEND", "BECONFIG" >>)
             L9 == Lookup("primary", "observatory", TRUE, << "BE_PHASE", "BE_DCC", "BE_DELAY", "TCYCLE" >>)
             L10 == Lookup("primary", "project", FALSE, << "OBS_MODE" >>)
             L11 == Lookup("primary", "project", TRUE, << "OBSBW" >>)
             L12 == Lookup("primary", "scan", FALSE, << "PNT_ID", "SRC_NAME" >>)
             L13 == Lookup("primary", "pulsar", FALSE, << "COORD_MD" >>)
             L14 == Lookup("primary", "pulsar", TRUE, << "EQUINOX" >>)
             L15 == Lookup("primary", "pulsar", FALSE, << "RA", "DEC" >>)
             L16 == Lookup("primary", "scan", TRUE, << "BMAJ", "BMIN", "BPA" >>)
             L17 == Lookup("primary", "scan", FALSE, << "STT_CRD1", "STT_CRD2", "TRK_MODE", "STP_CRD1", "STP_CRD2" >>)
             L18 == Lookup("primary", "scan", TRUE, << "SCANLEN" >>)
             L19 == Lookup("primary", "scan", FALSE, << "FD_MODE" >>)
             L20 == Lookup("primary", "scan", TRUE, << "FD_REQ" >>)
             L21 == Lookup("primary", "project", FALSE, << "CAL_MODE" >>)
             L22 == Lookup("primary", "project", TRUE, << "CAL_FREQ", "CAL_DCYC", "CAL_PHS", "CAL_NPHS" >>)
  <2>1. Provided(L1)
    <3>1. << "OBSERVER", "PROJID" >> \in Seq(ProjectTexts)
      BY DEF ProjectTexts
    <3> QED BY <3>1, ProjectHas, LookupProvided
  <2>2. Provided(L2)
    <3>1. << "TELESCOP" >> \in Seq(ObservatoryTexts)
      BY DEF ObservatoryTexts
    <3> QED BY <3>1, ObservatoryHas, LookupProvided
  <2>3. Provided(L3)
    <3>1. << "ANT_X", "ANT_Y", "ANT_Z" >> \in Seq(ObservatoryNumbers)
      BY DEF ObservatoryNumbers
    <3> QED BY <3>1, ObservatoryHas, LookupProvided
  <2>4. Provided(L4)
    <3>1. << "FRONTEND" >> \in Seq(ObservatoryTexts)
      BY DEF ObservatoryTexts
    <3> QED BY <3>1, ObservatoryHas, LookupProvided
  <2>5. Provided(L5)
    <3>1. << "IBEAM", "NRCVR" >> \in Seq(ObservatoryNumbers)
      BY DEF ObservatoryNumbers
    <3> QED BY <3>1, ObservatoryHas, LookupProvided
  <2>6. Provided(L6)
    <3>1. << "FD_POLN" >> \in Seq(ObservatoryTexts)
      BY DEF ObservatoryTexts
    <3> QED BY <3>1, ObservatoryHas, LookupProvided
  <2>7. Provided(L7)
    <3>1. << "FD_HAND", "FD_SANG", "FD_XYPH" >> \in Seq(ObservatoryNumbers)
      BY DEF ObservatoryNumbers
    <3> QED BY <3>1, ObservatoryHas, LookupProvided
  <2>8. Provided(L8)
    <3>1. << "BACKEND", "BECONFIG" >> \in Seq(ObservatoryTexts)
      BY DEF ObservatoryTexts
    <3> QED BY <3>1, ObservatoryHas, LookupProvided
  <2>9. Provided(L9)
    <3>1. << "BE_PHASE", "BE_DCC", "BE_DELAY", "TCYCLE" >> \in Seq(ObservatoryNumbers)
      BY DEF ObservatoryNumbers
    <3> QED BY <3>1, ObservatoryHas, LookupProvided
  <2>10. Provided(L10)
    <3>1. << "OBS_MODE" >> \in Seq(ProjectTexts)
      BY DEF ProjectTexts
    <3> QED BY <3>1, ProjectHas, LookupProvided
  <2>11. Provided(L11)
    <3>1. << "OBSBW" >> \in Seq(ProjectNumbers)
      BY DEF ProjectNumbers
    <3> QED BY <3>1, ProjectHas, LookupProvided
  <2>12. Provided(L12)
    <3>1. << "PNT_ID", "SRC_NAME" >> \in Seq(ScanTexts)
      BY DEF ScanTexts
    <3> QED BY <3>1, ScanHas, LookupProvided
  <2>13. Provided(L13)
    <3>1. << "COORD_MD" >> \in Seq(PulsarTexts)
      BY DEF PulsarTexts
    <3> QED BY <3>1, PulsarHas, LookupProvided
  <2>14. Provided(L14)
    <3>1. << "EQUINOX" >> \in Seq(PulsarNumbers)
      BY DEF PulsarNumbers
    <3> QED BY <3>1, PulsarHas, LookupProvided
  <2>15. Provided(L15)
    <3>1. << "RA", "DEC" >> \in Seq(PulsarTexts)
      BY DEF PulsarTexts
    <3> QED BY <3>1, PulsarHas, LookupProvided
  <2>16. Provided(L16)
    <3>1. << "BMAJ", "BMIN", "BPA" >> \in Seq(ScanNumbers)
      BY DEF ScanNumbers
    <3> QED BY <3>1, ScanHas, LookupProvided
  <2>17. Provided(L17)
    <3>1. << "STT_CRD1", "STT_CRD2", "TRK_MODE", "STP_CRD1", "STP_CRD2" >> \in Seq(ScanTexts)
      BY DEF ScanTexts
    <3> QED BY <3>1, ScanHas, LookupProvided
  <2>18. Provided(L18)
    <3>1. << "SCANLEN" >> \in Seq(ScanNumbers)
      BY DEF ScanNumbers
    <3> QED BY <3>1, ScanHas, LookupProvided
  <2>19. Provided(L19)
    <3>1. << "FD_MODE" >> \in Seq(ScanTexts)
      BY DEF ScanTexts
    <3> QED BY <3>1, ScanHas, LookupProvided
  <2>20. Provided(L20)
    <3>1. << "FD_REQ" >> \in Seq(ScanNumbers)
      BY DEF ScanNumbers
    <3> QED BY <3>1, ScanHas, LookupProvided
  <2>21. Provided(L21)
    <3>1. << "CAL_MODE" >> \in Seq(ProjectTexts)
      BY DEF ProjectTexts
    <3> QED BY <3>1, ProjectHas, LookupProvided
  <2>22. Provided(L22)
    <3>1. << "CAL_FREQ", "CAL_DCYC", "CAL_PHS", "CAL_NPHS" >> \in Seq(ProjectNumbers)
      BY DEF ProjectNumbers
    <3> QED BY <3>1, ProjectHas, LookupProvided
  <2> HIDE DEF L1, L2, L3, L4, L5, L6, L7, L8, L9, L10, L11, L12, L13, L14, L15, L16, L17, L18, L19, L20, L21, L22
  <2> DEFINE J1 == L1 \o L2 \o L3 \o L4 \o L5
  <2>23. Provided(J1)
    BY <2>1, <2>2, <2>3, <2>4, <2>5, ProvidedJoined, Zenon
  <2> HIDE DEF J1
  <2> DEFINE J2 == J1 \o L6 \o L7 \o L8 \o L9 \o L10
  <2>24. Provided(J2)
    BY <2>6, <2>7, <2>8, <2>9, <2>10, <2>23, ProvidedJoined, Zenon
  <2> HIDE DEF J2
  <2> DEFINE J3 == J2 \o L11 \o L12 \o L13 \o L14 \o L15
  <2>25. Provided(J3)
    BY <2>11, <2>12, <2>13, <2>14, <2>15, <2>24, ProvidedJoined, Zenon
  <2> HIDE DEF J3
  <2> DEFINE J4 == J3 \o L16 \o L17 \o L18 \o L19 \o L20
  <2>26. Provided(J4)
    BY <2>16, <2>17, <2>18, <2>19, <2>20, <2>25, ProvidedJoined, Zenon
  <2> HIDE DEF J4
  <2> DEFINE J5 == J4 \o L21 \o L22
  <2>27. Provided(J5)
    BY <2>21, <2>22, <2>26, ProvidedJoined, Zenon
  <2> HIDE DEF J5
  <2>28. PrimaryLookups = J5
    BY Zenon DEF PrimaryLookups, J1, J2, J3, J4, J5, L1, L2, L3, L4, L5, L6, L7, L8, L9, L10, L11, L12, L13, L14, L15, L16, L17, L18, L19, L20, L21, L22
  <2> QED BY <2>27, <2>28
<1>4. Provided(HistoryLookups)
  <2>1. Provided(Lookup("history", "observatory", FALSE, << "PROC_CMD" >>))
    <3>1. << "PROC_CMD" >> \in Seq(ObservatoryTexts)
      BY DEF ObservatoryTexts
    <3> QED BY <3>1, ObservatoryHas, LookupProvided
  <2>2. Provided(Lookup("history", "scan", FALSE, << "POL_TYPE" >>))
    <3>1. << "POL_TYPE" >> \in Seq(ScanTexts)
      BY DEF ScanTexts
    <3> QED BY <3>1, ScanHas, LookupProvided
  <2>3. Provided(Lookup("history", "project", TRUE, << "OBSBW" >>))
    <3>1. << "OBSBW" >> \in Seq(ProjectNumbers)
      BY DEF ProjectNumbers
    <3> QED BY <3>1, ProjectHas, LookupProvided
  <2>4. Provided(Lookup("history", "scan", FALSE, << "DDS_MTHD", "SC_MTHD", "CAL_MTHD", "CAL_FILE", "RFI_MTHD" >>))
    <3>1. << "DDS_MTHD", "SC_MTHD", "CAL_MTHD", "CAL_FILE", "RFI_MTHD" >> \in Seq(ScanTexts)
      BY DEF ScanTexts
    <3> QED BY <3>1, ScanHas, LookupProvided
  <2> QED BY <2>1, <2>2, <2>3, <2>4, ProvidedJoined, Zenon DEF HistoryLookups
<1>5. Provided(TableLookups)
  <2>1. Provided(Lookup("table", "scan", FALSE, << "INT_TYPE", "INT_UNIT", "SCALE", "POL_TYPE" >>))
    <3>1. << "INT_TYPE", "INT_UNIT", "SCALE", "POL_TYPE" >> \in Seq(ScanTexts)
      BY DEF ScanTexts
    <3> QED BY <3>1, ScanHas, LookupProvided
  <2>2. Provided(Lookup("table", "observatory", TRUE, << "NBITS" >>))
    <3>1. << "NBITS" >> \in Seq(ObservatoryNumbers)
      BY DEF ObservatoryNumbers
    <3> QED BY <3>1, ObservatoryHas, LookupProvided
  <2>3. Provided(Lookup("table", "project", TRUE, << "OBSBW" >>))
    <3>1. << "OBSBW" >> \in Seq(ProjectNumbers)
      BY DEF ProjectNumbers
    <3> QED BY <3>1, ProjectHas, LookupProvided
  <2>4. Provided(Lookup("table", "pulsar", TRUE, << "RM" >>))
    <3>1. << "RM" >> \in Seq(PulsarNumbers)
      BY DEF PulsarNumbers
    <3> QED BY <3>1, PulsarHas, LookupProvided
  <2>5. Provided(Lookup("table", "scan", TRUE, << "NCHNOFFS" >>))
    <3>1. << "NCHNOFFS" >> \in Seq(ScanNumbers)
      BY DEF ScanNumbers
    <3> QED BY <3>1, ScanHas, LookupProvided
  <2>6. Provided(Lookup("table", "project", TRUE, << "NSBLK", "NSTOT" >>))
    <3>1. << "NSBLK", "NSTOT" >> \in Seq(ProjectNumbers)
      BY DEF ProjectNumbers
    <3> QED BY <3>1, ProjectHas, LookupProvided
  <2> QED BY <2>1, <2>2, <2>3, <2>4, <2>5, <2>6, ProvidedJoined, Zenon DEF TableLookups
<1> QED BY <1>1, <1>2, <1>3, <1>4, <1>5, ProvidedJoined, Zenon DEF Lookups

\* With cfgen's own files a lookup finds its key, and a number where it wants one.
LEMMA LookupFinds ==
  ASSUME DialogueInv, DiskInv, ArgInv, LoadInv, phase = "look", dialogue.table = "program",
         edits = {}, CleanDialogue, \A f \in CfgFiles : Told(f) = << f >>,
         \A n \in DOMAIN dialogue.lines : dialogue.lines[n] = << >> \/ IsNumber(dialogue.lines[n]),
         NEW n \in 1 .. Len(Lookups)
  PROVE  /\ << Lookups[n].key >> \in DOMAIN data[Lookups[n].file]
         /\ Lookups[n].num => IsNumber(data[Lookups[n].file][<< Lookups[n].key >>])
<1> DEFINE l == Lookups[n]
           g == l.file
<1>1. Has(g, l.num, l.key)
  <2>1. PICK S : Lookups \in Seq(S) /\ \A x \in S : Has(x.file, x.num, x.key)
    BY LookupsProvided, Zenon DEF Provided
  <2>2. n \in DOMAIN Lookups
    BY <2>1
  <2>3. l \in S
    BY <2>1, <2>2, ElementsOf, Zenon
  <2> QED BY <2>1, <2>3, Zenon
<1> HIDE DEF l
<1>2. Table = GeneratorTable
  <2>1. "program" \in DOMAIN Tables
    BY DialoguesAssumption, Zenon DEF DialogueInv
  <2> QED BY <2>1, ProgramAssumption, Zenon DEF Table
<1>3. PICK i \in DOMAIN Table[g] : /\ Table[g][i].key = l.key
                                   /\ l.num => IsNumber(Table[g][i].default)
  BY <1>1, <1>2, Zenon DEF Has
<1>4. g \in CfgFiles
  BY <1>1, Zenon DEF Has
<1> HIDE DEF g
<1>5. AllLoaded
  BY LoadOrderIs, Zenon DEF AllLoaded, LoadInv
<1>6. << g, Table[g][i].key >> \notin edits
  OBVIOUS
<1>7. << l.key >> \in DOMAIN data[g] /\ data[g][<< l.key >>] = kv[g][i]
  <2>1. LoadedIsWritten
    BY WrittenIsLoaded
  <2>2. Told(g) = << g >>
    BY <1>4, Zenon
  <2>3. /\ << Table[g][i].key >> \in DOMAIN data[g]
        /\ data[g][<< Table[g][i].key >>] = kv[g][i]
    BY <2>1, <2>2, <1>4, <1>5, <1>6, Zenon DEF LoadedIsWritten
  <2>4. << Table[g][i].key >> = << l.key >>
    BY <1>3, Zenon
  <2> QED BY <2>3, <2>4, Zenon
<1>8. l.num => IsNumber(kv[g][i])
  <2>1. kv[g][i] \in {Table[g][i].default} \cup TypedValues
    BY <1>3, <1>4, Zenon DEF DialogueInv
  <2>2. \A v \in TypedValues : IsNumber(v)
    BY Zenon DEF TypedValues
  <2> QED BY <2>1, <2>2, <1>3, Zenon
<1> QED BY <1>7, <1>8, Zenon DEF l, g

\* What a command line says depends on nothing else.
LEMMA ToldSame ==
  ASSUME args' = args
  PROVE  \A f : Told(f)' = Told(f)
<1> DEFINE LastOf(S) == CHOOSE n \in S : \A k \in S : k <= n
<1>1. \A f : Given(f)' = Given(f)
  BY Zenon DEF Given
<1>2. ASSUME NEW f PROVE Told(f)' = Told(f)
  <2>1. /\ Told(f)' = IF Given(f)' = {} THEN Default(f) ELSE args'[LastOf(Given(f)')].arg
        /\ Told(f) = IF Given(f) = {} THEN Default(f) ELSE args[LastOf(Given(f))].arg
    BY Zenon DEF Told
  <2> HIDE DEF LastOf
  <2> QED BY <2>1, <1>1, Zenon
<1> QED BY <1>2

\* So the lookups end without a complaint.
LEMMA LookLookUp ==
  ASSUME DialogueInv, DiskInv, ArgInv, LoadInv, LookInv, LookUp
  PROVE  LookInv'
<1> DEFINE l == Lookups[looked + 1]
<1>1. /\ phase = "look" /\ looked < Len(Lookups) /\ looked' = looked + 1
      /\ outcome' = IF << l.key >> \notin DOMAIN data[l.file] THEN "missing"
                    ELSE IF l.num /\ ~IsNumber(data[l.file][<< l.key >>]) THEN l.stage
                    ELSE "none"
      /\ phase' = IF outcome' = "none" THEN phase ELSE "end"
      /\ edits' = edits /\ dialogue' = dialogue /\ args' = args
  BY Zenon DEF LookUp, genVars, argVars
<1>2. looked \in Nat
  BY Zenon DEF LookInv
<1>3. looked' \in Nat /\ looked + 1 \in 1 .. Len(Lookups)
  <2>1. Len(Lookups) \in Nat
    <3>1. PICK S : Lookups \in Seq(S)
      BY LookupsProvided, Zenon DEF Provided
    <3> QED BY <3>1, ElementsOf, Zenon
  <2> HIDE DEF l
  <2> QED BY <2>1, <1>1, <1>2
<1> HIDE DEF l
<1>4. phase' \in {"look", "end"} /\ (phase' = "look" => outcome' = "none") /\ (phase' = "end" => outcome' # "none")
  BY <1>1, Zenon
<1>5. FilesOfCfgenSuffice'
  <2> SUFFICES ASSUME phase' = "end", dialogue.table = "program", edits = {}, CleanDialogue',
                      \A f \in CfgFiles : Told(f)' = << f >>,
                      \A n \in DOMAIN dialogue.lines :
                        dialogue.lines[n] = << >> \/ IsNumber(dialogue.lines[n])
               PROVE  FALSE
    BY <1>1, Zenon DEF FilesOfCfgenSuffice
  <2>1. CleanDialogue
    BY <1>1, Zenon DEF CleanDialogue
  <2>2. \A f : Told(f)' = Told(f)
    BY <1>1, ToldSame
  <2>3. \A f \in CfgFiles : Told(f) = << f >>
    BY <2>2, Zenon
  <2>4. /\ << l.key >> \in DOMAIN data[l.file]
        /\ l.num => IsNumber(data[l.file][<< l.key >>])
    BY <2>1, <2>3, <1>1, <1>3, LookupFinds, Zenon DEF l
  <2> QED BY <2>4, <1>1, <1>4, Zenon
<1> QED BY <1>3, <1>4, <1>5, Zenon DEF LookInv

\* The steps that end nothing, and the ends of the two programs.
LEMMA LookOther ==
  ASSUME LookInv, looked' = looked,
         \/ phase' = "end" /\ outcome' \in {"none", "help"}
         \/ phase' # "end" /\ outcome' = "none"
  PROVE  LookInv'
<1>1. FilesOfCfgenSuffice'
  BY Zenon DEF FilesOfCfgenSuffice
<1>2. looked \in Nat
  BY Zenon DEF LookInv
<1> QED BY <1>1, <1>2, Zenon DEF LookInv

\* The steps of prf2fits leave the dialogue alone.
LEMMA DialogueSame ==
  ASSUME DialogueInv, AnswersInv, AnswersInOrder, dialogue' = dialogue, cin' = cin, ceof' = ceof,
         line' = line, kv' = kv, filename' = filename, asked' = asked, output' = output
  PROVE  DialogueInv' /\ AnswersInv' /\ AnswersInOrder'
<1>1. /\ Table' = Table /\ TypedValues' = TypedValues
      /\ \A mode : Questions(mode)' = Questions(mode)
      /\ \A n : AnswerTo(n)' = AnswerTo(n)
  BY SameDialogue, Zenon
<1>2. DialogueInv'
  BY <1>1, Zenon DEF DialogueInv
<1>3. AnswersInv'
  BY Zenon DEF AnswersInv
<1>4. \A n : IsAnswered(n)' = IsAnswered(n)
  BY <1>1, Zenon DEF IsAnswered
<1>5. AnswersInOrder'
  BY <1>1, <1>4, Zenon DEF AnswersInOrder
<1> QED BY <1>2, <1>3, <1>5

-----------------------------------------------------------------------------
(* Every step keeps the invariant *)

\* The invariant holds at first.
LEMMA InitInv == Init => Inv
<1> SUFFICES ASSUME Init PROVE Inv
  OBVIOUS
<1>1. GenInit /\ looked = 0 /\ phase = "cfgen" /\ outcome = "none"
  BY Zenon DEF Init
<1>2. DialogueInv /\ AnswersInv /\ AnswersInOrder
  BY <1>1, DialogueInit
<1>3. LookInv
  <2>1. looked \in Nat /\ phase # "end" /\ phase # "look"
    BY <1>1
  <2> QED BY <2>1, <1>1, Zenon DEF LookInv, FilesOfCfgenSuffice
<1> QED BY <1>2, <1>3, DiskInit, ArgInitial, LoadInitial, Zenon DEF Inv

\* Before the files are loaded.
LEMMA EarlyIs ==
  ASSUME Inv, phase \in {"cfgen", "edit", "args"}
  PROVE  loads = 0 /\ loading = "none" /\ outcome = "none"
<1>1. phase # "load" /\ phase \notin {"look", "end"}
  OBVIOUS
<1> QED BY <1>1, Zenon DEF Inv, LoadInv, LookInv

\* cfgen's steps.
LEMMA GenerateInv == Inv /\ Generate => Inv'
<1> SUFFICES ASSUME Inv, Generate PROVE Inv'
  OBVIOUS
<1>1. /\ phase = "cfgen" /\ GenStep /\ phase' = phase /\ edits' = edits /\ loads' = loads
      /\ looked' = looked /\ outcome' = outcome /\ cfgVars' = cfgVars /\ argVars' = argVars
  BY Zenon DEF Generate
<1>2. loads = 0 /\ loading = "none" /\ outcome = "none"
  BY <1>1, EarlyIs
<1>3. DialogueInv /\ AnswersInv /\ AnswersInOrder /\ DiskInv /\ ArgInv /\ LoadInv /\ LookInv
  BY Zenon DEF Inv
<1>4. DialogueInv'
  BY <1>1, <1>3, DialogueTakeIo, DialogueOutputFile, Zenon DEF GenStep
<1>5. AnswersInv'
  BY <1>1, <1>3, AnswersInvStep
<1>6. AnswersInOrder'
  BY <1>1, <1>3, InOrderTakeIo, InOrderOutputFile, Zenon DEF GenStep
<1>7. DiskInv'
  BY <1>1, <1>3, DiskTakeIo, DiskOutputFile, Zenon DEF GenStep
<1>8. phase' \notin {"load", "look", "end"} /\ ~(loads' > 0) /\ phase' # "look" /\ phase' # "end"
  BY <1>1, <1>2
<1>9. ArgInv'
  BY <1>1, <1>3, <1>8, ArgSame
<1>10. LoadInv'
  BY <1>1, <1>2, <1>3, <1>8, LoadIdle
<1>11. LookInv'
  BY <1>1, <1>2, <1>3, <1>8, LookOther, Zenon
<1> QED BY <1>4, <1>5, <1>6, <1>7, <1>9, <1>10, <1>11, Zenon DEF Inv

\* cfgen ends.
LEMMA GeneratedInv == Inv /\ Generated => Inv'
<1> SUFFICES ASSUME Inv, Generated PROVE Inv'
  OBVIOUS
<1>1. /\ phase = "cfgen" /\ output = 4 /\ phase' = "edit" /\ edits' = edits /\ loads' = loads
      /\ looked' = looked /\ outcome' = outcome /\ cfgVars' = cfgVars /\ argVars' = argVars
      /\ genVars' = genVars
  BY Zenon DEF Generated, GenDone
<1>2. loads = 0 /\ loading = "none" /\ outcome = "none"
  BY <1>1, EarlyIs
<1>3. DialogueInv /\ AnswersInv /\ AnswersInOrder /\ DiskInv /\ ArgInv /\ LoadInv /\ LookInv
  BY Zenon DEF Inv
<1>4. /\ dialogue' = dialogue /\ cin' = cin /\ ceof' = ceof /\ line' = line /\ kv' = kv
      /\ filename' = filename /\ asked' = asked /\ output' = output /\ disk' = disk
  BY <1>1, Zenon DEF genVars
<1>5. DialogueInv' /\ AnswersInv' /\ AnswersInOrder'
  BY <1>3, <1>4, DialogueSame
<1>6. DiskInv'
  BY <1>1, <1>3, <1>4, DiskSame
<1>7. phase' \notin {"load", "look", "end"} /\ ~(loads' > 0) /\ phase' # "look" /\ phase' # "end"
  BY <1>1, <1>2
<1>8. ArgInv'
  BY <1>1, <1>3, <1>7, ArgSame
<1>9. LoadInv'
  BY <1>1, <1>2, <1>3, <1>7, LoadIdle
<1>10. LookInv'
  BY <1>1, <1>2, <1>3, <1>7, LookOther, Zenon
<1> QED BY <1>5, <1>6, <1>8, <1>9, <1>10, Zenon DEF Inv

\* The operator's edits.
LEMMA EditInv == Inv /\ Edit => Inv'
<1> SUFFICES ASSUME Inv, Edit PROVE Inv'
  OBVIOUS
<1>1. PICK f \in CfgFiles :
        /\ MayEdit(f)
        /\ \/ \E i \in DOMAIN disk[<< f >>] : EditLine(f, i) \/ RemoveLine(f, i)
           \/ \E i \in DOMAIN Table[f] : AddLine(f, Table[f][i].key)
  BY Zenon DEF Edit
<1>2. \E lines : EditFile(<< f >>, lines)
  BY <1>1, Zenon DEF EditLine, RemoveLine, AddLine
<1>3. /\ phase = "edit" /\ phase' = phase /\ loads' = loads /\ looked' = looked
      /\ outcome' = outcome /\ cfgVars' = cfgVars /\ argVars' = argVars
      /\ dialogue' = dialogue /\ cin' = cin /\ ceof' = ceof /\ line' = line /\ kv' = kv
      /\ filename' = filename /\ asked' = asked /\ output' = output
  BY <1>1, <1>2, Zenon DEF EditFile, MayEdit
<1>4. loads = 0 /\ loading = "none" /\ outcome = "none"
  BY <1>3, EarlyIs
<1>5. DialogueInv /\ AnswersInv /\ AnswersInOrder /\ DiskInv /\ ArgInv /\ LoadInv /\ LookInv
  BY Zenon DEF Inv
<1>6. DialogueInv' /\ AnswersInv' /\ AnswersInOrder'
  BY <1>3, <1>5, DialogueSame
<1>7. DiskInv'
  BY <1>5, DiskEdit
<1>8. phase' \notin {"load", "look", "end"} /\ ~(loads' > 0) /\ phase' # "look" /\ phase' # "end"
  BY <1>3, <1>4
<1>9. ArgInv'
  BY <1>3, <1>5, <1>8, ArgSame
<1>10. LoadInv'
  BY <1>3, <1>4, <1>5, <1>8, LoadIdle
<1>11. LookInv'
  BY <1>3, <1>4, <1>5, <1>8, LookOther, Zenon
<1> QED BY <1>6, <1>7, <1>9, <1>10, <1>11, Zenon DEF Inv

\* The command line is typed, read, and read to its end or to -h.
LEMMA ArgsInv == Inv /\ (Start \/ ReadOption \/ OptionsRead) => Inv'
<1> SUFFICES ASSUME Inv, Start \/ ReadOption \/ OptionsRead PROVE Inv'
  OBVIOUS
<1>1. /\ edits' = edits /\ loads' = loads /\ looked' = looked /\ cfgVars' = cfgVars /\ genVars' = genVars
  BY Zenon DEF Start, ReadOption, OptionsRead
<1>2. /\ phase \in {"edit", "args"} /\ phase' \in {"args", "load", "end"}
      /\ \/ phase' = "end" /\ outcome' = "help"
         \/ phase' # "end" /\ outcome' = outcome
  <2>1. \/ phase = "edit" /\ phase' = "args" /\ outcome' = outcome
        \/ phase = "args" /\ phase' = phase /\ outcome' = outcome
        \/ phase = "args" /\ phase' = "load" /\ outcome' = outcome
        \/ phase = "args" /\ phase' = "end" /\ outcome' = "help"
    BY Zenon DEF Start, ReadOption, OptionsRead
  <2> QED BY <2>1
<1>3. loads = 0 /\ loading = "none" /\ outcome = "none"
  <2>1. phase \in {"cfgen", "edit", "args"}
    BY <1>2
  <2> QED BY <2>1, EarlyIs
<1>4. DialogueInv /\ AnswersInv /\ AnswersInOrder /\ DiskInv /\ ArgInv /\ LoadInv /\ LookInv
  BY Zenon DEF Inv
<1>5. /\ dialogue' = dialogue /\ cin' = cin /\ ceof' = ceof /\ line' = line /\ kv' = kv
      /\ filename' = filename /\ asked' = asked /\ output' = output /\ disk' = disk
  BY <1>1, Zenon DEF genVars
<1>6. DialogueInv' /\ AnswersInv' /\ AnswersInOrder'
  BY <1>4, <1>5, DialogueSame
<1>7. phase # "cfgen" /\ phase' # "cfgen" /\ phase' # "look" /\ phase' \notin {"cfgen", "edit"} /\ ~(loads' > 0)
  BY <1>1, <1>2, <1>3
<1>8. DiskInv'
  BY <1>1, <1>4, <1>5, <1>7, DiskSame
<1>9. ArgInv'
  <2>1. CASE OptionsRead
    <3>1. argVars' = argVars /\ (phase' = "load" => optind = Len(args))
      <4>1. /\ argVars' = argVars
            /\ (optind = Len(args) /\ phase' = "load") \/ phase' = "end"
        BY <2>1, Zenon DEF OptionsRead, Parsed
      <4> QED BY <4>1
    <3> QED BY <3>1, <1>4, <1>7, ArgSame
  <2> QED BY <2>1, <1>4, ArgStart, ArgReadOption
<1>10. LoadInv'
  BY <1>1, <1>3, <1>4, <1>7, LoadIdle
<1>11. LookInv'
  <2>1. \/ phase' = "end" /\ outcome' \in {"none", "help"}
        \/ phase' # "end" /\ outcome' = "none"
    BY <1>2, <1>3
  <2> QED BY <2>1, <1>1, <1>4, LookOther
<1> QED BY <1>6, <1>8, <1>9, <1>10, <1>11, Zenon DEF Inv

\* The constructor loads a file.
LEMMA LoadingInv == Inv /\ Load => Inv'
<1> SUFFICES ASSUME Inv, Load PROVE Inv'
  OBVIOUS
<1>1. /\ phase = "load" /\ phase' = phase /\ edits' = edits /\ looked' = looked
      /\ outcome' = outcome /\ genVars' = genVars /\ argVars' = argVars
      /\ \/ /\ loads < Len(LoadOrder) /\ loads' = loads + 1
            /\ OpenFile(LoadOrder[loads + 1], OnDisk(NameFor(LoadOrder[loads + 1])))
         \/ LoadLine /\ loads' = loads
         \/ EndLoad /\ loads' = loads
  BY Zenon DEF Load
<1>2. DialogueInv /\ AnswersInv /\ AnswersInOrder /\ DiskInv /\ ArgInv /\ LoadInv /\ LookInv
  BY Zenon DEF Inv
<1>3. /\ dialogue' = dialogue /\ cin' = cin /\ ceof' = ceof /\ line' = line /\ kv' = kv
      /\ filename' = filename /\ asked' = asked /\ output' = output /\ disk' = disk
      /\ setting' = setting
  BY <1>1, Zenon DEF genVars, argVars
<1>4. DialogueInv' /\ AnswersInv' /\ AnswersInOrder'
  BY <1>2, <1>3, DialogueSame
<1>5. DiskInv'
  BY <1>1, <1>2, <1>3, DiskSame
<1>6. ArgInv'
  BY <1>1, <1>2, ArgSame
<1>7. LoadInv'
  BY <1>1, <1>2, <1>3, LoadOpen, LoadNext, LoadEnd
<1>8. phase' # "end" /\ outcome' = "none"
  <2>1. phase \notin {"look", "end"} /\ phase # "end"
    BY <1>1
  <2> QED BY <2>1, <1>1, <1>2, Zenon DEF LookInv
<1>9. LookInv'
  BY <1>1, <1>2, <1>8, LookOther
<1> QED BY <1>4, <1>5, <1>6, <1>7, <1>9, Zenon DEF Inv

\* The conversion looks values up.
LEMMA LookingInv == Inv /\ (Loaded \/ LookUp \/ AllFound) => Inv'
<1> SUFFICES ASSUME Inv, Loaded \/ LookUp \/ AllFound PROVE Inv'
  OBVIOUS
<1>1. /\ edits' = edits /\ loads' = loads /\ cfgVars' = cfgVars /\ genVars' = genVars /\ argVars' = argVars
  BY Zenon DEF Loaded, LookUp, AllFound
<1>2. DialogueInv /\ AnswersInv /\ AnswersInOrder /\ DiskInv /\ ArgInv /\ LoadInv /\ LookInv
  BY Zenon DEF Inv
<1>3. /\ dialogue' = dialogue /\ cin' = cin /\ ceof' = ceof /\ line' = line /\ kv' = kv
      /\ filename' = filename /\ asked' = asked /\ output' = output /\ disk' = disk
      /\ setting' = setting
  BY <1>1, Zenon DEF genVars, argVars
<1>4. /\ phase \in {"load", "look"} /\ phase' \in {"look", "end"} /\ loads = 4 /\ loading = "none"
  <2>1. CASE Loaded
    BY <2>1, LoadOrderIs, Zenon DEF Loaded
  <2>2. CASE LookUp \/ AllFound
    <3>1. phase = "look" /\ (phase' = phase \/ phase' = "end")
      BY <2>2, Zenon DEF LookUp, AllFound
    <3>2. phase # "load"
      BY <3>1
    <3> QED BY <3>1, <3>2, <1>2, Zenon DEF LoadInv
  <2> QED BY <2>1, <2>2
<1>5. DialogueInv' /\ AnswersInv' /\ AnswersInOrder'
  BY <1>2, <1>3, DialogueSame
<1>6. phase # "cfgen" /\ phase' # "cfgen" /\ phase' \notin {"cfgen", "edit"}
  BY <1>4
<1>7. DiskInv'
  BY <1>1, <1>2, <1>3, <1>6, DiskSame
<1>8. ArgInv'
  BY <1>1, <1>2, <1>4, <1>6, ArgSame
<1>9. LoadInv'
  BY <1>1, <1>2, <1>3, <1>4, LoadDone
<1>10. LookInv'
  <2>1. CASE LookUp
    BY <2>1, <1>2, LookLookUp
  <2>2. CASE Loaded
    <3>1. phase = "load" /\ phase' = "look" /\ outcome' = outcome /\ looked' = looked
      BY <2>2, Zenon DEF Loaded
    <3>2. phase \notin {"look", "end"} /\ phase' # "end"
      BY <3>1
    <3>3. outcome' = "none"
      BY <3>1, <3>2, <1>2, Zenon DEF LookInv
    <3> QED BY <3>1, <3>2, <3>3, <1>2, LookOther
  <2>3. CASE AllFound
    <3>1. phase = "look" /\ phase' = "end" /\ outcome' = outcome /\ looked' = looked
      BY <2>3, Zenon DEF AllFound
    <3>2. outcome' \in {"none", "help"}
      BY <3>1, <1>2, Zenon DEF LookInv
    <3> QED BY <3>1, <3>2, <1>2, LookOther
  <2> QED BY <2>1, <2>2, <2>3
<1> QED BY <1>5, <1>7, <1>8, <1>9, <1>10, Zenon DEF Inv

\* A step of something else.
LEMMA StutterInv == Inv /\ UNCHANGED confVars => Inv'
<1> SUFFICES ASSUME Inv, UNCHANGED confVars PROVE Inv'
  OBVIOUS
<1>1. /\ phase' = phase /\ edits' = edits /\ loads' = loads /\ looked' = looked /\ outcome' = outcome
      /\ cfgVars' = cfgVars /\ genVars' = genVars /\ argVars' = argVars
  BY Zenon DEF confVars
<1>2. DialogueInv /\ AnswersInv /\ AnswersInOrder /\ DiskInv /\ ArgInv /\ LoadInv /\ LookInv
  BY Zenon DEF Inv
<1>3. /\ dialogue' = dialogue /\ cin' = cin /\ ceof' = ceof /\ line' = line /\ kv' = kv
      /\ filename' = filename /\ asked' = asked /\ output' = output /\ disk' = disk
      /\ setting' = setting /\ args' = args
      /\ loading' = loading /\ unread' = unread /\ numlines' = numlines /\ data' = data
      /\ messages' = messages
  BY <1>1, Zenon DEF genVars, argVars, cfgVars
<1>4. DialogueInv' /\ AnswersInv' /\ AnswersInOrder'
  BY <1>2, <1>3, DialogueSame
<1>5. DiskInv'
  BY <1>1, <1>2, <1>3, DiskSame
<1>6. ArgInv'
  BY <1>1, <1>2, ArgSame
<1>7. LoadInv'
  <2>1. \A f : LinesFor(f)' = LinesFor(f)
    BY <1>3, SameLines
  <2>2. \A f : LinesRead(f)' = LinesRead(f)
    BY <2>1, <1>1, <1>3, Zenon DEF LinesRead
  <2>3. \A f \in CfgFiles : ClassInv(f)'
    BY <2>1, <2>2, <1>2, <1>3, ClassSame, Zenon DEF LoadInv
  <2>4. \A f \in CfgFiles : loading = f =>
          numlines' \in 0 .. Len(LinesFor(f)') /\ unread' = RestOf(LinesFor(f), numlines)'
    BY <2>1, <1>2, <1>3, Zenon DEF LoadInv, RestOf
  <2> QED BY <2>3, <2>4, <1>1, <1>2, <1>3, Zenon DEF LoadInv
<1>8. LookInv'
  <2>1. FilesOfCfgenSuffice'
    <3>1. \A f : Told(f)' = Told(f)
      BY <1>3, ToldSame
    <3>2. CleanDialogue' <=> CleanDialogue
      BY <1>3, Zenon DEF CleanDialogue
    <3>3. FilesOfCfgenSuffice
      BY <1>2, Zenon DEF LookInv
    <3> QED BY <3>1, <3>2, <3>3, <1>1, <1>3, Zenon DEF FilesOfCfgenSuffice
  <2> QED BY <2>1, <1>1, <1>2, Zenon DEF LookInv
<1> QED BY <1>4, <1>5, <1>6, <1>7, <1>8, Zenon DEF Inv

\* All of them together.
LEMMA NextInv == Inv /\ [Next]_confVars => Inv'
  BY GenerateInv, GeneratedInv, EditInv, ArgsInv, LoadingInv, LookingInv, StutterInv, Zenon DEF Next

\* So the invariant holds always.
LEMMA SpecInv == Spec => []Inv
<1>1. Init => Inv
  BY InitInv
<1>2. Inv /\ [Next]_confVars => Inv'
  BY NextInv
<1> QED BY <1>1, <1>2, PTL DEF Spec

-----------------------------------------------------------------------------
(* Results *)

\* takeio: the nth line typed is the answer to the nth question, whatever the
\* tables, the mode and the lines, as long as the input of mode 1 ends with a
\* newline.
THEOREM AnswersReachTheirKeys == Spec => []AnswersInOrder
<1>1. Inv => AnswersInOrder
  BY Zenon DEF Inv
<1> QED BY <1>1, SpecInv, PTL

\* outputfile and LoadFile: what cfgen writes for a key is what the converter
\* loads, as long as nobody edits that line, and whatever becomes of the others.
THEOREM ValuesArriveAsWritten == Spec => []LoadedIsWritten
<1>1. Inv => LoadedIsWritten
  BY WrittenIsLoaded, Zenon DEF Inv
<1> QED BY <1>1, SpecInv, PTL

\* main and the constructor of FITS: each class is loaded from the file the
\* command line names for it, for every command line.
THEOREM ClassesGetTheirFiles == Spec => []FilesAsTold
<1>1. Inv => FilesAsTold
  BY WrittenIsLoaded, Zenon DEF Inv
<1> QED BY <1>1, SpecInv, PTL

\* The constructors of the generator and the lookups of the converter: files as
\* cfgen writes them leave no lookup without its key or its number.
THEOREM GeneratedFilesSuffice == Spec => []FilesOfCfgenSuffice
<1>1. Inv => FilesOfCfgenSuffice
  BY Zenon DEF Inv, LookInv
<1> QED BY <1>1, SpecInv, PTL
=============================================================================
