----------------------------- MODULE MaskTokens -----------------------------
(***************************************************************************)
(* Masker.Value (mask.go): the loop that reads a payload token by token,   *)
(* writes what it read, and puts Replacement where a covered member's      *)
(* value was. All it knows of where it is in the payload is a stack of     *)
(* open brackets.                                                          *)
(***************************************************************************)
EXTENDS JsonTokens

CONSTANT Payloads  \* the token sequences Value may be given

ASSUME PayloadsAssumption == \A ts \in Payloads : IsJson(ts)

VARIABLES
  input,    \* the tokens the decoder reads
  pos,      \* the next of them
  stack,    \* the open brackets
  out,      \* the tokens written
  masking   \* "idle", "reading", "done", "failed"

maskVars == <<input, pos, stack, out, masking>>

\* m.masks
Covered(name) == Masks(NewMasker(ExtraNames), name)

-----------------------------------------------------------------------------
Level(object) == [object |-> object, expectName |-> object]
Top == stack[Len(stack)]
ExpectsName == stack # <<>> /\ Top.object /\ Top.expectName

\* setExpectName: nothing happens outside an object.
SetExpectName(levels, v) ==
  IF levels # <<>> /\ levels[Len(levels)].object
    THEN [levels EXCEPT ![Len(levels)].expectName = v]
    ELSE levels

Pop == SubSeq(stack, 1, Len(stack) - 1)

-----------------------------------------------------------------------------
Reading == masking = "reading" /\ pos <= Len(input)
Tok == input[pos]

\* A string where a member name is expected is a name.
AtName == ExpectsName /\ Tok.kind = "str"

\* SkipValue reads the tokens it drops, and may fail.
Skippable(i) == \A l \in i..ValueEnd(input, i) : input[l].kind # "bad"

Write(tokens) == out' = out \o tokens
GoTo(i) == pos' = i

ReadEOF ==
  /\ masking = "reading" /\ pos > Len(input)
  /\ masking' = "done"
  /\ UNCHANGED <<input, pos, stack, out>>

\* The error is returned with no value.
Fails == masking' = "failed" /\ out' = <<>> /\ UNCHANGED <<input, pos, stack>>
ReadFails == Reading /\ Tok.kind = "bad" /\ Fails

Open ==
  /\ Reading /\ Tok.kind \in Openers
  /\ Write(<<Tok>>) /\ GoTo(pos + 1)
  /\ stack' = Append(stack, Level(Tok.kind = "{"))
  /\ UNCHANGED <<input, masking>>

\* The value that ended may have been a member's. (The mutant does not say so.)
AfterValueForgets(levels) == levels
AfterValue(levels) == SetExpectName(levels, TRUE)

Close ==
  /\ Reading /\ Tok.kind \in Closers
  /\ Write(<<Tok>>) /\ GoTo(pos + 1)
  /\ stack' = AfterValue(Pop)
  /\ UNCHANGED <<input, masking>>

Name ==
  /\ Reading /\ AtName /\ ~Covered(Tok.text)
  /\ Write(<<Tok>>) /\ GoTo(pos + 1)
  /\ stack' = SetExpectName(stack, FALSE)
  /\ UNCHANGED <<input, masking>>

MaskedName ==
  /\ Reading /\ AtName /\ Covered(Tok.text) /\ Skippable(pos + 1)
  /\ Write(<<Tok, Token("str", Replacement)>>) /\ GoTo(ValueEnd(input, pos + 1) + 1)
  /\ stack' = AfterValue(SetExpectName(stack, FALSE))
  /\ UNCHANGED <<input, masking>>

SkipFails == Reading /\ AtName /\ Covered(Tok.text) /\ ~Skippable(pos + 1) /\ Fails

Scalar ==
  /\ Reading /\ Tok.kind \in Scalars /\ ~AtName
  /\ Write(<<Tok>>) /\ GoTo(pos + 1)
  /\ stack' = AfterValue(stack)
  /\ UNCHANGED <<input, masking>>

MaskStep ==
  ReadEOF \/ ReadFails \/ Open \/ Close \/ Name \/ MaskedName \/ SkipFails \/ Scalar

MaskInit ==
  /\ input \in Payloads
  /\ pos = 1 /\ stack = <<>> /\ out = <<>> /\ masking = "reading"
MaskSpec == MaskInit /\ [][MaskStep]_maskVars

=============================================================================
