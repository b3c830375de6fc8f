-------------------------------- MODULE Until -------------------------------
(***************************************************************************)
(* The stop condition (until.go) and the report that compares it with what *)
(* arrived (report.go).                                                    *)
(*                                                                         *)
(* messages and the counts of kinds are Go ints: -messages and -kinds are  *)
(* parsed with Atoi and never checked for sign, so zero and negative       *)
(* counts are in.                                                          *)
(***************************************************************************)
EXTENDS Frames

\* A kind that is not in the Go map has no count, Nil.
UntilType ==
  [timeout : Int, messages : Int, discriminator : BOOLEAN,
   kinds : [Kinds -> Int \cup {Nil}]]

KindsAsked(u) == {k \in Kinds : u.kinds[k] # Nil}

\* Until.Validate.
ValidUntil(u) ==
  /\ u.timeout > 0
  /\ KindsAsked(u) # {} => u.discriminator

\* Anything beyond the timeout was asked for.
Asked(u) == u.messages # 0 \/ KindsAsked(u) # {}

\* Until.satisfied.
Satisfied(u, count, seen) ==
  /\ Asked(u)
  /\ count >= u.messages
  /\ \A k \in KindsAsked(u) : seen[k] >= u.kinds[k]

-----------------------------------------------------------------------------
\* A mutant: what is short is not kept above zero.
NewSessionReportSigned(u, count, seen) ==
  [skipped |-> FALSE, received |-> count, seen |-> IF u.discriminator THEN seen ELSE Nil,
   short |-> u.messages - count, missing |-> [k \in Kinds |-> 0], notJSON |-> 0]

(***************************************************************************)
(* newSessionReport. missing holds a count above zero for the kinds that   *)
(* came up short, and is 0 for those the Go map does not hold.             *)
(***************************************************************************)
NewSessionReport(u, count, seen) ==
  [skipped  |-> FALSE,
   received |-> count,
   seen     |-> IF u.discriminator THEN seen ELSE Nil,
   short    |-> IF count < u.messages THEN u.messages - count ELSE 0,
   missing  |-> [k \in Kinds |->
                   IF k \in KindsAsked(u) /\ seen[k] < u.kinds[k]
                     THEN u.kinds[k] - seen[k] ELSE 0],
   notJSON  |-> 0]

\* SessionReport.Complete.
Complete(sr) == sr.short = 0 /\ \A k \in Kinds : sr.missing[k] = 0

=============================================================================
