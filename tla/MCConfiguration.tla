--------------------------- MODULE MCConfiguration ---------------------------
(***************************************************************************)
(* Tables and dialogues for TLC.                                           *)
(***************************************************************************)
EXTENDS Configuration

\* Two keys of three of the files, one of the fourth.
SmallTable ==
  [f \in CfgFiles |->
     CASE f = "pulsar"      -> Entries(<< "DEC", "RA" >>, {})
       [] f = "observatory" -> Entries(<< "ANT_X", "BACKEND" >>, {"BACKEND"})
       [] f = "project"     -> Entries(<< "OBSBW" >>, {})
       [] f = "scan"        -> Entries(<< "NPOL", "NUMCHANS" >>, {})]

\* ENTER, a number, a text, and texts with the separators in them.
Typed == {<<>>, << "num", "num" >>, << "text" >>, << "num", "=", "text" >>, << "text", ";", "num" >>}

Lines(n) == UNION {[1 .. k -> Typed] : k \in 0 .. n}

\* With the small table the files of mode 2 are edited once, the defaults twice.
SmallDialogues ==
  [table : {"small"}, edits : {0}, mode : {1}, lines : Lines(3), cut : BOOLEAN]
  \cup [table : {"small"}, edits : {1}, mode : {2}, lines : Lines(2), cut : BOOLEAN]
  \cup [table : {"small"}, edits : {2}, mode : {3}, lines : {<<>>}, cut : {FALSE}]
  \cup [table : {"small"}, edits : {0}, mode : {1}, cut : BOOLEAN,
        lines : {[k \in 1 .. n |-> IF k = m THEN << "text" >> ELSE << "num", "num" >>] :
                   n \in 4 .. 12, m \in 0 .. 12}]

\* With the program's own table up to five numbers are typed, and in mode 1 up to
\* thirty, and the last line may be cut off.
FullDialogues ==
  [table : {"program"}, edits : {0}, mode : {3}, lines : {<<>>}, cut : {FALSE}]
  \cup [table : {"program"}, edits : {0}, mode : {2}, cut : {FALSE},
        lines : UNION {[1 .. n -> {<<>>, << "num", "num" >>}] : n \in 0 .. 5}]
  \cup [table : {"program"}, edits : {0}, mode : {1}, cut : BOOLEAN,
        lines : {[k \in 1 .. n |-> IF k = m THEN << "num", "num" >> ELSE <<>>] :
                   n \in {10, 30}, m \in {2, 9}}]

AllDialogues == SmallDialogues \cup FullDialogues

BothTables == [small |-> SmallTable, program |-> GeneratorTable]

Option(o, name) == [opt |-> o, arg |-> << name >>]

\* The usual line; none; only a word; help, asked for late; names given twice,
\* swapped, not on the disk, or without their argument.
Plain == << Option("i", "prof"), Option("f", "fits") >>

OneLine == {Plain}

SmallCommandLines ==
  {Plain, <<>>, << Option("word", "prof") >>,
   << Option("s", "pulsar"), Option("h", "") >>,
   Plain \o << Option("n", "scan"), Option("a", "par"), Option("n", "pulsar"), Option("p", "project") >>,
   Plain \o << Option("s", "project"), Option("p", "scan"), Option("o", "elsewhere"), Option("?", "") >>}
=============================================================================
