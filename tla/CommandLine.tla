----------------------------- MODULE CommandLine -----------------------------
(***************************************************************************)
(* The arguments of prf2fits: main of Source/third.cpp up to the           *)
(* construction of FITS.  A command line is what getopt makes of it, a     *)
(* sequence of options with their arguments; "?" is an option it does not  *)
(* know or that lacks its argument, "word" a word that is no option, which *)
(* argc counts and getopt passes over.                                     *)
(***************************************************************************)
EXTENDS Naturals, Sequences

CONSTANT CommandLines  \* what the operator may type

VARIABLES
  args,    \* the command line
  optind,  \* the options handled so far
  setting, \* main's strings
  parfile  \* whether an ephemeris file was named

argVars == <<args, optind, setting, parfile>>

\* The option that sets each of main's strings.
OptionOf == [pulsar |-> "n", observatory |-> "o", project |-> "p", scan |-> "s",
             par |-> "a", out |-> "f", input |-> "i"]

Strings == DOMAIN OptionOf

ASSUME CommandLinesAssumption ==
  CommandLines \subseteq Seq([opt : STRING, arg : Seq(STRING)])

\* The names a string starts with; input and out have none.
Default(s) == IF s \in {"out", "input"} THEN <<>> ELSE << s >>

ArgInit ==
  /\ args = <<>>
  /\ optind = 0
  /\ setting = [s \in Strings |-> Default(s)]
  /\ parfile = 0

\* The program is started.
Type(cl) ==
  /\ args' = cl
  /\ optind' = 0
  /\ UNCHANGED <<setting, parfile>>

\* Without a single argument, or when -h is met, help is printed and the program
\* ends.
Helped == args = <<>> \/ (optind > 0 /\ args[optind].opt = "h")

Parsed == ~Helped /\ optind = Len(args)

\* One round of the loop, or a word that getopt passes over.
GetOpt ==
  /\ ~Helped
  /\ optind < Len(args)
  /\ optind' = optind + 1
  /\ LET a == args[optind + 1]
     IN  /\ setting' = [s \in Strings |-> IF a.opt = OptionOf[s] THEN a.arg ELSE setting[s]]
         /\ parfile' = IF a.opt = "a" THEN 1 ELSE parfile
  /\ UNCHANGED args

-----------------------------------------------------------------------------
(* What a command line says: of an option given more than once the last *)

Given(s) == {n \in DOMAIN args : args[n].opt = OptionOf[s]}

Told(s) ==
  IF Given(s) = {} THEN Default(s)
  ELSE args[CHOOSE n \in Given(s) : \A k \in Given(s) : k <= n].arg
=============================================================================
