---------------------------- MODULE Configuration ----------------------------
(***************************************************************************)
(* The way of a configuration value: asked for and written by cfgen,       *)
(* edited by hand, named on the command line or not, loaded by the         *)
(* constructor of FITS (Source/pfits.hpp), and looked up, and where need   *)
(* be converted to a number, by the stages of the conversion.  What the    *)
(* lookups come to is what Prf2Fits has as                                 *)
(* badcfg.                                                                 *)
(***************************************************************************)
EXTENDS CfgFile, Cfgen, CommandLine

\* Bound: the dialogue says how often its files are edited.
ASSUME EditsAssumption == \A d \in Dialogues : d.edits \in Nat

\* The lines cfgen writes are shorter than size_t can say.
ASSUME LinesAssumption ==
  /\ \A t \in DOMAIN Tables : \A f \in CfgFiles : \A i \in DOMAIN Tables[t][f] :
       Len(Tables[t][f][i].default) + 3 < Size
  /\ \A d \in Dialogues : \A n \in DOMAIN d.lines : Len(d.lines[n]) + 3 < Size

ASSUME ProgramAssumption == "program" \in DOMAIN Tables => Tables["program"] = GeneratorTable

VARIABLES
  phase,   \* "cfgen", "edit", "args", "load", "look" or "end"
  edits,   \* the lines edited so far: <<file, key>>, or <<file, "">> for one added
  loads,   \* the files loaded so far
  looked,  \* the lookups made so far
  outcome  \* "none", "help", "missing", or the stage that met a value that is no number

confVars == <<phase, edits, loads, looked, outcome, cfgVars, genVars, argVars>>

\* FITS::FITS loads them in this order.
LoadOrder == << "pulsar", "scan", "observatory", "project" >>

-----------------------------------------------------------------------------
(* What the converter looks up, in its order *)

Lookup(stage, file, num, keys) ==
  [i \in DOMAIN keys |-> [stage |-> stage, file |-> file, num |-> num, key |-> keys[i]]]

OpenLookups == Lookup("open", "scan", TRUE, << "NUMCHANS" >>)

SanityLookups ==
  Lookup("sanity", "scan", TRUE, << "NUMCHANS", "NPOL" >>)
  \o Lookup("sanity", "pulsar", TRUE, << "DM" >>)
  \o Lookup("sanity", "project", TRUE, << "OBSFREQ" >>)

PrimaryLookups ==
  Lookup("primary", "project", FALSE, << "OBSERVER", "PROJID" >>)
  \o Lookup("primary", "observatory", FALSE, << "TELESCOP" >>)
  \o Lookup("primary", "observatory", TRUE, << "ANT_X", "ANT_Y", "ANT_Z" >>)
  \o Lookup("primary", "observatory", FALSE, << "FRONTEND" >>)
  \o Lookup("primary", "observatory", TRUE, << "IBEAM", "NRCVR" >>)
  \o Lookup("primary", "observatory", FALSE, << "FD_POLN" >>)
  \o Lookup("primary", "observatory", TRUE, << "FD_HAND", "FD_SANG", "FD_XYPH" >>)
  \o Lookup("primary", "observatory", FALSE, << "BACKEND", "BECONFIG" >>)
  \o Lookup("primary", "observatory", TRUE, << "BE_PHASE", "BE_DCC", "BE_DELAY", "TCYCLE" >>)
  \o Lookup("primary", "project", FALSE, << "OBS_MODE" >>)
  \o Lookup("primary", "project", TRUE, << "OBSBW" >>)
  \o Lookup("primary", "scan", FALSE, << "PNT_ID", "SRC_NAME" >>)
  \o Lookup("primary", "pulsar", FALSE, << "COORD_MD" >>)
  \o Lookup("primary", "pulsar", TRUE, << "EQUINOX" >>)
  \o Lookup("primary", "pulsar", FALSE, << "RA", "DEC" >>)
  \o Lookup("primary", "scan", TRUE, << "BMAJ", "BMIN", "BPA" >>)
  \o Lookup("primary", "scan", FALSE, << "STT_CRD1", "STT_CRD2", "TRK_MODE", "STP_CRD1", "STP_CRD2" >>)
  \o Lookup("primary", "scan", TRUE, << "SCANLEN" >>)
  \o Lookup("primary", "scan", FALSE, << "FD_MODE" >>)
  \o Lookup("primary", "scan", TRUE, << "FD_REQ" >>)
  \o Lookup("primary", "project", FALSE, << "CAL_MODE" >>)
  \o Lookup("primary", "project", TRUE, << "CAL_FREQ", "CAL_DCYC", "CAL_PHS", "CAL_NPHS" >>)

HistoryLookups ==
  Lookup("history", "observatory", FALSE, << "PROC_CMD" >>)
  \o Lookup("history", "scan", FALSE, << "POL_TYPE" >>)
  \o Lookup("history", "project", TRUE, << "OBSBW" >>)
  \o Lookup("history", "scan", FALSE, << "DDS_MTHD", "SC_MTHD", "CAL_MTHD", "CAL_FILE", "RFI_MTHD" >>)

\* Broken form of TableLookups: a value is looked for in the wrong file.
TableLookupsInScan ==
  Lookup("table", "scan", TRUE, << "NCHNOFFS", "NSBLK", "NSTOT" >>)

TableLookups ==
  Lookup("table", "scan", FALSE, << "INT_TYPE", "INT_UNIT", "SCALE", "POL_TYPE" >>)
  \o Lookup("table", "observatory", TRUE, << "NBITS" >>)
  \o Lookup("table", "project", TRUE, << "OBSBW" >>)
  \o Lookup("table", "pulsar", TRUE, << "RM" >>)
  \o Lookup("table", "scan", TRUE, << "NCHNOFFS" >>)
  \o Lookup("table", "project", TRUE, << "NSBLK", "NSTOT" >>)

Lookups == OpenLookups \o SanityLookups \o PrimaryLookups \o HistoryLookups \o TableLookups

-----------------------------------------------------------------------------

Init ==
  /\ CfgInit(CfgFiles)
  /\ GenInit
  /\ ArgInit
  /\ phase = "cfgen"
  /\ edits = {}
  /\ loads = 0
  /\ looked = 0
  /\ outcome = "none"

Generate ==
  /\ phase = "cfgen"
  /\ GenStep
  /\ UNCHANGED <<phase, edits, loads, looked, outcome, cfgVars, argVars>>

Generated ==
  /\ phase = "cfgen"
  /\ GenDone
  /\ phase' = "edit"
  /\ UNCHANGED <<edits, loads, looked, outcome, cfgVars, genVars, argVars>>

Without(s, n) == SubSeq(s, 1, n - 1) \o SubSeq(s, n + 1, Len(s))

\* What an editor may make of a line: a separator or the value is lost, or all.
Edited(text) ==
  {Without(text, n) : n \in {n \in 2 .. Len(text) : text[n] \in {"=", ";"}}}
  \cup {<< Head(text), "=", ";" >>, << Head(text), "=", "text", ";" >>, <<>>}

EditFile(name, lines) ==
  /\ disk' = [disk EXCEPT ![name] = lines]
  /\ UNCHANGED <<phase, loads, looked, outcome, cfgVars, dialogue, cin, ceof, line,
                 kv, filename, asked, output, argVars>>

MayEdit(f) ==
  phase = "edit" /\ Cardinality(edits) < dialogue.edits /\ << f >> \in DOMAIN disk

\* Bound: a line, or the end of a file, is edited once.
Record(f, key) ==
  << f, key >> \notin edits /\ edits' = edits \cup {<< f, key >>}

\* The operator changes a line, removes one, or adds a second line for a key.
EditLine(f, i) ==
  /\ disk[<< f >>][i] # <<>>
  /\ Record(f, Head(disk[<< f >>][i]))
  /\ \E text \in Edited(disk[<< f >>][i]) :
       EditFile(<< f >>, [disk[<< f >>] EXCEPT ![i] = text])

RemoveLine(f, i) ==
  /\ disk[<< f >>][i] # <<>>
  /\ Record(f, Head(disk[<< f >>][i]))
  /\ EditFile(<< f >>, Without(disk[<< f >>], i))

AddLine(f, key) ==
  /\ Record(f, "")
  /\ EditFile(<< f >>, Append(disk[<< f >>], << key, "=", "text", ";" >>))

Edit ==
  \E f \in CfgFiles :
    /\ MayEdit(f)
    /\ \/ \E i \in DOMAIN disk[<< f >>] : EditLine(f, i) \/ RemoveLine(f, i)
       \/ \E i \in DOMAIN Table[f] : AddLine(f, Table[f][i].key)

\* prf2fits is started.
Start ==
  /\ phase = "edit"
  /\ \E cl \in CommandLines : Type(cl)
  /\ phase' = "args"
  /\ UNCHANGED <<edits, loads, looked, outcome, cfgVars, genVars>>

\* main's options, one by one.
ReadOption ==
  /\ phase = "args"
  /\ GetOpt
  /\ UNCHANGED <<phase, edits, loads, looked, outcome, cfgVars, genVars>>

\* The loop ends, or the program does.
OptionsRead ==
  /\ phase = "args"
  /\ \/ Parsed /\ phase' = "load" /\ UNCHANGED outcome
     \/ Helped /\ phase' = "end" /\ outcome' = "help"
  /\ UNCHANGED <<edits, loads, looked, cfgVars, genVars, argVars>>

\* Broken form of NameFor: main and the constructor disagree on the order of
\* the names.
NameForSwapped(f) ==
  setting[CASE f = "project" -> "scan" [] f = "scan" -> "project" [] OTHER -> f]

\* The constructor's arguments.
NameFor(f) == setting[f]

OnDisk(name) == IF name \in DOMAIN disk THEN disk[name] ELSE <<>>

\* FITS::FITS: the four LoadFile calls.
Load ==
  /\ phase = "load"
  /\ \/ /\ loads < Len(LoadOrder)
        /\ LET f == LoadOrder[loads + 1] IN OpenFile(f, OnDisk(NameFor(f)))
        /\ loads' = loads + 1
     \/ (LoadLine \/ EndLoad) /\ UNCHANGED loads
  /\ UNCHANGED <<phase, edits, looked, outcome, genVars, argVars>>

Loaded ==
  /\ phase = "load"
  /\ loads = Len(LoadOrder)
  /\ loading = "none"
  /\ phase' = "look"
  /\ UNCHANGED <<edits, loads, looked, outcome, cfgVars, genVars, argVars>>

\* stoi, stof and stod take what starts with a number; a text for which they
\* throw is none, and neither is a numeral too large for its type, for which they
\* throw as well.
IsNumber(text) == text # <<>> /\ Head(text) = "num"

\* operator[], and stoi and the like.  A key that is missing makes operator[]
\* return nothing, after which anything may happen; the model stops there.
LookUp ==
  /\ phase = "look"
  /\ looked < Len(Lookups)
  /\ LET l   == Lookups[looked + 1]
         key == << l.key >>
     IN  outcome' = IF key \notin DOMAIN data[l.file] THEN "missing"
                    ELSE IF l.num /\ ~IsNumber(data[l.file][key]) THEN l.stage
                    ELSE "none"
  /\ looked' = looked + 1
  /\ phase' = IF outcome' = "none" THEN phase ELSE "end"
  /\ UNCHANGED <<edits, loads, cfgVars, genVars, argVars>>

AllFound ==
  /\ phase = "look"
  /\ looked = Len(Lookups)
  /\ phase' = "end"
  /\ UNCHANGED <<edits, loads, looked, outcome, cfgVars, genVars, argVars>>

Next ==
  \/ Generate \/ Generated
  \/ Edit \/ Start
  \/ ReadOption \/ OptionsRead
  \/ Load \/ Loaded
  \/ LookUp \/ AllFound

Spec == Init /\ [][Next]_confVars

-----------------------------------------------------------------------------
(* What the two programs promise each other *)

\* No value typed has a semicolon.
CleanDialogue ==
  \A n \in DOMAIN dialogue.lines :
    \A t \in DOMAIN dialogue.lines[n] : dialogue.lines[n][t] # ";"

\* Nobody edited the file of g.
Untouched(g) == \A e \in edits : e[1] # g

AllLoaded == phase \in {"look", "end"} /\ loads = Len(LoadOrder) /\ CleanDialogue

\* A key that no one edited is loaded with the value cfgen had for it, whatever
\* was made of the other lines of its file, and a file nobody edited loads
\* without a message: what outputfile writes is what parse reads, lines do not
\* affect one another, and of two lines of a key the first counts.
LoadedIsWritten ==
  AllLoaded =>
    \A f, g \in CfgFiles :
      Told(f) = << g >> =>
        /\ \A i \in DOMAIN Table[g] :
             << g, Table[g][i].key >> \notin edits =>
               /\ << Table[g][i].key >> \in DOMAIN data[f]
               /\ data[f][<< Table[g][i].key >>] = kv[g][i]
        /\ Untouched(g) => \A m \in messages : m[2] # f

\* Every class has the keys of the file that the command line names for it, of
\* several names the last, and none when there is no such file: the options
\* reach the parameters of the constructor they are for, also when a file is
\* loaded for two classes.
FilesAsTold ==
  AllLoaded =>
    \A f \in CfgFiles :
      /\ Told(f) \notin DOMAIN disk => DOMAIN data[f] = {}
      /\ \A g \in CfgFiles :
           Told(f) = << g >> /\ Untouched(g) =>
             DOMAIN data[f] = {<< Table[g][i].key >> : i \in DOMAIN Table[g]}

\* With the program's own table, the files as cfgen writes them and found by
\* the names they have, and numbers typed where the converter
\* wants numbers, every lookup finds its key and every conversion its number:
\* the generator's tables have all that the converter asks for.
FilesOfCfgenSuffice ==
  phase = "end" /\ dialogue.table = "program" /\ edits = {} /\ CleanDialogue
    /\ (\A f \in CfgFiles : Told(f) = << f >>)
    /\ (\A n \in DOMAIN dialogue.lines : dialogue.lines[n] = <<>> \/ IsNumber(dialogue.lines[n]))
    => outcome \in {"none", "help"}
=============================================================================
