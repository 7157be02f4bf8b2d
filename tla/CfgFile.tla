------------------------------- MODULE CfgFile -------------------------------
(***************************************************************************)
(* The reader of configuration files: parse of Source/parser.hpp and class *)
(* IOer of Source/ioer.hpp.                                                *)
(*                                                                         *)
(* A text (a line, a key, a value) is a sequence of tokens, of which "="   *)
(* and ";" are the ones parse looks for.  Positions count from 0 and are   *)
(* unsigned numbers of Size values, the last of which is string::npos;     *)
(* sums of positions wrap around.                                          *)
(***************************************************************************)
EXTENDS Integers, Sequences, FiniteSets

CONSTANT Size  \* the number of values of size_t

\* Lines are shorter than that.
ASSUME SizeAssumption == Size \in Nat /\ Size > 1

VARIABLES
  loading,  \* the file LoadFile is reading, or "none"
  unread,   \* its lines that are not read yet
  numlines, \* LoadFile's count of lines
  data,     \* IOer::data of each file, a function from keys to values
  messages  \* what was printed: <<"parse", file>>, <<"check", file>>

cfgVars == <<loading, unread, numlines, data, messages>>

-----------------------------------------------------------------------------
(* parse *)

Npos == Size - 1

Wrapped(n) == n % Size

FindFirstOf(text, token) ==
  LET found == {n \in DOMAIN text : text[n] = token}
  IN  IF found = {} THEN Npos ELSE (CHOOSE n \in found : \A m \in found : n <= m) - 1

Substr(text, pos, len) ==
  SubSeq(text, pos + 1, IF len > Len(text) - pos THEN Len(text) ELSE pos + len)

KeyOf(line) == Substr(line, 0, FindFirstOf(line, "="))

\* Without "=" the value begins at 0, without ";" after the "=" it goes on to
\* the end of the line: npos plus one is 0, and a negative length is a huge one.
ValueOf(line) ==
  LET eq   == FindFirstOf(line, "=")
      semi == FindFirstOf(line, ";")
  IN  Substr(line, Wrapped(eq + 1), Wrapped(semi - eq - 1))

Parses(line) == KeyOf(line) # <<>> /\ ValueOf(line) # <<>>

\* Broken form of Inserted: a key that is there is overwritten.
InsertedLast(map, key, value) ==
  [k \in DOMAIN map \cup {key} |-> IF k = key THEN value ELSE map[k]]

\* map::insert keeps the value of a key that is there.
Inserted(map, key, value) ==
  [k \in DOMAIN map \cup {key} |-> IF k \in DOMAIN map THEN map[k] ELSE value]

-----------------------------------------------------------------------------
(* LoadFile *)

CfgInit(files) ==
  /\ loading = "none"
  /\ unread = <<>>
  /\ numlines = 0
  /\ data = [f \in files |-> <<>>]
  /\ messages = {}

\* The file is opened; one that does not open has no lines.
OpenFile(f, lines) ==
  /\ loading = "none"
  /\ loading' = f
  /\ unread' = lines
  /\ numlines' = 0
  /\ UNCHANGED <<data, messages>>

\* getline and updater.
LoadLine ==
  /\ loading # "none"
  /\ unread # <<>>
  /\ unread' = Tail(unread)
  /\ numlines' = numlines + 1
  /\ IF Parses(Head(unread))
       THEN /\ data' = [data EXCEPT ![loading] =
                          Inserted(@, KeyOf(Head(unread)), ValueOf(Head(unread)))]
            /\ UNCHANGED messages
       ELSE /\ messages' = messages \cup {<< "parse", loading >>}
            /\ UNCHANGED data
  /\ UNCHANGED loading

\* The lines are counted against the keys.
EndLoad ==
  /\ loading # "none"
  /\ unread = <<>>
  /\ messages' = IF Cardinality(DOMAIN data[loading]) # numlines
                   THEN messages \cup {<< "check", loading >>} ELSE messages
  /\ loading' = "none"
  /\ UNCHANGED <<unread, numlines, data>>
=============================================================================
