-------------------------------- MODULE Cfgen --------------------------------
(***************************************************************************)
(* The generator of configuration files: Source/generator.hpp and main of  *)
(* Source/testgenerator.cpp.  It asks, in a dialogue on the standard input,*)
(* for the values of the keys it has defaults for, and writes four files.  *)
(*                                                                         *)
(* Texts are sequences of tokens as in CfgFile; "num" stands for anything  *)
(* that begins with a number, which is all stoi, stod and stof ask for,    *)
(* and "text" for anything else.                                           *)
(***************************************************************************)
EXTENDS Integers, Sequences

CONSTANTS
  Tables,   \* tables: the keys of each file with their defaults, in the map's order
  Dialogues \* what the generator is started with

VARIABLES
  dialogue, \* the table, the mode, the lines typed, and whether the last of them
            \* is cut off by the end of the input before its newline
  cin,      \* the lines that are not read yet
  ceof,     \* the end-of-file bit of cin
  line,     \* the variable getline reads into
  kv,       \* the values of each file's keys
  filename, \* the name of each file
  asked,    \* the questions asked so far
  output,   \* the files written so far
  disk      \* the files on the disk: a function from names to lines

genVars == <<dialogue, cin, ceof, line, kv, filename, asked, output, disk>>

FileOrder == << "pulsar", "observatory", "project", "scan" >>

CfgFiles == {"pulsar", "observatory", "project", "scan"}

Modes == 1 .. 3

\* The keys of a map differ; no key has a separator in it, and no default an end.
ASSUME TablesAssumption ==
  \A t \in DOMAIN Tables :
    /\ Tables[t] \in [CfgFiles -> Seq([key : STRING, default : Seq(STRING) \ {<<>>}])]
    /\ \A f \in CfgFiles : \A i \in DOMAIN Tables[t][f] :
         /\ Tables[t][f][i].key \notin {"=", ";"}
         /\ \A n \in DOMAIN Tables[t][f][i].default : Tables[t][f][i].default[n] # ";"
         /\ \A j \in DOMAIN Tables[t][f] : Tables[t][f][i].key = Tables[t][f][j].key => i = j

ASSUME DialoguesAssumption ==
  \A d \in Dialogues :
    d.table \in DOMAIN Tables /\ d.mode \in Modes /\ d.lines \in Seq(Seq(STRING)) /\ d.cut \in BOOLEAN

-----------------------------------------------------------------------------
(* The defaults of the program: the constructors of the four classes *)

Entries(keys, textKeys) ==
  [i \in DOMAIN keys |->
     [key |-> keys[i],
      default |-> << IF keys[i] \in textKeys THEN "text" ELSE "num" >>]]

PulsarTable ==
  Entries(<< "COORD_MD", "DEC", "DM", "EQUINOX", "RA", "RM" >>, {"COORD_MD"})

ObservatoryTable ==
  Entries(<< "ANT_X", "ANT_Y", "ANT_Z", "BACKEND", "BECONFIG", "BE_DCC",
             "BE_DELAY", "BE_PHASE", "FD_HAND", "FD_POLN", "FD_SANG",
             "FD_XYPH", "FRONTEND", "IBEAM", "NBITS", "NRCVR", "PROC_CMD",
             "SIGNINT", "TCYCLE", "TELESCOP", "ZERO_OFF" >>,
          {"BACKEND", "BECONFIG", "FD_POLN", "PROC_CMD", "TELESCOP"})

ProjectTable ==
  Entries(<< "CAL_DCYC", "CAL_FREQ", "CAL_MODE", "CAL_NPHS", "CAL_PHS",
             "NSBLK", "NSTOT", "OBSBW", "OBSERVER", "OBSFREQ", "OBSNCHAN",
             "OBS_MODE", "PROJID" >>,
          {"CAL_MODE", "OBSERVER", "OBS_MODE", "PROJID"})

ScanTable ==
  Entries(<< "BMAJ", "BMIN", "BPA", "CAL_FILE", "CAL_MTHD", "CHAN_BW",
             "DATE-OBS", "DDS_MTHD", "FD_MODE", "FD_REQ", "INT_TYPE",
             "INT_UNIT", "NCHNOFFS", "NPOL", "NSUBOFFS", "NUMCHANS", "PNT_ID",
             "POL_TYPE", "RFI_MTHD", "SCALE", "SCANLEN", "SC_MTHD",
             "SRC_NAME", "STP_CRD1", "STP_CRD2", "STT_CRD1", "STT_CRD2",
             "STT_IMJD", "STT_LST", "STT_OFFS", "STT_SMJD", "TRK_MODE" >>,
          {"CAL_FILE", "CAL_MTHD", "DDS_MTHD", "FD_MODE", "INT_TYPE",
           "INT_UNIT", "PNT_ID", "POL_TYPE", "RFI_MTHD", "SCALE", "SC_MTHD",
           "SRC_NAME", "TRK_MODE"})

GeneratorTable ==
  [f \in CfgFiles |->
     CASE f = "pulsar"      -> PulsarTable
       [] f = "observatory" -> ObservatoryTable
       [] f = "project"     -> ProjectTable
       [] f = "scan"        -> ScanTable]

-----------------------------------------------------------------------------
(* The questions *)

Table == Tables[dialogue.table]

\* takeio(): every key of every file.
AllOf(f) == [i \in DOMAIN Table[f] |-> [file |-> f, item |-> i]]

AllQuestions == AllOf("pulsar") \o AllOf("observatory") \o AllOf("project") \o AllOf("scan")

\* takeio(key), which asks nothing when the key is not there.
ItemsOf(f, key) == {i \in DOMAIN Table[f] : Table[f][i].key = key}

One(f, key) ==
  IF ItemsOf(f, key) = {} THEN <<>>
  ELSE << [file |-> f, item |-> CHOOSE i \in ItemsOf(f, key) : TRUE] >>

MinimalQuestions ==
  One("pulsar", "RA") \o One("pulsar", "DEC") \o One("scan", "SRC_NAME")
  \o One("scan", "NUMCHANS") \o One("scan", "NPOL")

Questions(mode) ==
  CASE mode = 1 -> AllQuestions [] mode = 2 -> MinimalQuestions [] mode = 3 -> <<>>

-----------------------------------------------------------------------------
(* getline: once the end-of-file bit is set it leaves its argument alone *)

\* What the variable holds after getline when it held old.
Got(old) ==
  IF ceof THEN old ELSE IF cin = <<>> THEN <<>> ELSE Head(cin)

GetLine ==
  /\ cin' = IF ceof \/ cin = <<>> THEN cin ELSE Tail(cin)
  /\ ceof' = (ceof \/ cin = <<>> \/ (Len(cin) = 1 /\ dialogue.cut))

-----------------------------------------------------------------------------

GenInit ==
  /\ dialogue \in Dialogues
  /\ cin = dialogue.lines
  /\ ceof = FALSE
  /\ line = <<>>
  /\ kv = [f \in CfgFiles |-> [i \in DOMAIN Table[f] |-> Table[f][i].default]]
  /\ filename = [f \in CfgFiles |-> << f >>]
  /\ asked = 0
  /\ output = 0
  /\ disk = <<>>

\* Broken form of Before: takeio(key) shares its line, too.
BeforeShared(q) == line

\* What line holds before question q: takeio() has one line for all its keys,
\* takeio(key) a new one.
Before(q) ==
  IF dialogue.mode = 1 /\ Questions(1)[q].item > 1 THEN line ELSE <<>>

\* A question and its answer.
TakeIo ==
  LET q == asked + 1
  IN  /\ q \in DOMAIN Questions(dialogue.mode)
      /\ GetLine
      /\ line' = Got(Before(q))
      /\ kv' = [kv EXCEPT ![Questions(dialogue.mode)[q].file]
                         [Questions(dialogue.mode)[q].item] =
                  IF line' = <<>> THEN @ ELSE line']
      /\ asked' = q
      /\ UNCHANGED <<dialogue, filename, output, disk>>

NewName(f, typed) == IF typed = <<>> THEN filename[f] ELSE typed

LinesOf(f) ==
  [i \in DOMAIN Table[f] |-> << Table[f][i].key, "=" >> \o kv[f][i] \o << ";" >>]

\* A file is written.  In mode 1 its name is asked for, and looked at before it
\* is read.
OutputFile ==
  LET f == FileOrder[output + 1]
  IN  /\ asked = Len(Questions(dialogue.mode))
      /\ output < 4
      /\ filename' = [filename EXCEPT ![f] = NewName(f, <<>>)]
      /\ IF dialogue.mode = 1 THEN GetLine ELSE UNCHANGED <<cin, ceof>>
      /\ disk' = [name \in DOMAIN disk \cup {filename'[f]} |->
                   IF name = filename'[f] THEN LinesOf(f) ELSE disk[name]]
      /\ output' = output + 1
      /\ UNCHANGED <<dialogue, line, kv, asked>>

GenStep == TakeIo \/ OutputFile

GenDone == output = 4

-----------------------------------------------------------------------------
(* What the dialogue promises *)

AnswerTo(n) ==
  IF n \in DOMAIN dialogue.lines THEN dialogue.lines[n] ELSE <<>>

IsAnswered(n) ==
  LET q == Questions(dialogue.mode)[n]
  IN  kv[q.file][q.item] =
        IF AnswerTo(n) = <<>> THEN Table[q.file][q.item].default ELSE AnswerTo(n)

\* The nth line typed is the answer to the nth question, ENTER and a question
\* not answered leave the default, and keys not asked for keep theirs - unless
\* the input of mode 1 ends without a newline.
AnswersInOrder ==
  dialogue.mode # 1 \/ ~dialogue.cut =>
    /\ \A n \in 1 .. asked : IsAnswered(n)
    /\ \A f \in CfgFiles : \A i \in DOMAIN Table[f] :
         kv[f][i] = Table[f][i].default
           \/ \E n \in 1 .. asked : Questions(dialogue.mode)[n] = [file |-> f, item |-> i]

-----------------------------------------------------------------------------
(* What the repository says and the code does not do *)

\* "If user punches ENTER default is taken, else user input is read and stored."
AnswersAreTheUsers == \A n \in 1 .. asked : IsAnswered(n)
=============================================================================
