-------------------------- MODULE Prf2FitsRefinement --------------------------
(***************************************************************************)
(* On whole files of one polarisation the program implements PsrFits.      *)
(***************************************************************************)
EXTENDS Prf2Fits

\* What the refinement is about; the other values of the cfg files may be bad.
Convertible(i) == Complete(i) /\ Uniform(i) /\ i.subints[1].hdr.pol = 1

\* The row of the output that is row r of SUBINT.
RowOf(r) ==
  [isubint |-> cells[r][1], tsubint |-> cells[r][3], offs_sub |-> cells[r][4],
   freq |-> cells[r][15], period |-> cells[r][20], npol |-> cells[r][21],
   data |-> [n \in 1 .. width[19] |-> data[(r - 1) * width[19] + n].v]]

\* A row counts when its last column is written.
FullRows == {r \in DOMAIN cells : \A k \in Columns : cells[r][k] # Blank}

Rows == [r \in 1 .. Cardinality(FullRows) |-> RowOf(r)]

\* The output belongs to this run from fits_create_file on.
Phase ==
  CASE exit = "idle"    -> "idle"
    [] exit = "ok"      -> "ok"
    [] exit \in {"error", "abort"} -> "failed"
    [] exit = "running" ->
         IF pc \in {"open", "sanity", "create"} \/ status = FILE_NOT_CREATED
           THEN "started" ELSE "writing"

PF == INSTANCE PsrFits WITH
        Jobs    <- {i.subints : i \in Inputs},
        job     <- input.subints,
        phase   <- Phase,
        present <- disk # "absent",
        rows    <- Rows

\* Whatever fails and however often it is run, the program does to the output
\* only what PsrFits allows: a row is there whole and right, in its turn, or not at
\* all, and exit status 0 means that all are.
ImplementsPsrFits == PF!Steps

\* And it gets there, or fails: PutSubint goes on to the next row.
GoesOnAsPsrFits == PF!Progress
=============================================================================
