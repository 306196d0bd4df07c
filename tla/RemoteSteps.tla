------------------------------ MODULE RemoteSteps ------------------------------
(* What a method of the library does with an instance, one step for each    *)
(* request it awaits: sn/metadata/internal/MetadataReader.ts and            *)
(* comm/http/TableAPIRequest.ts.                                            *)
(*                                                                          *)
(* The rows of the instance are facts, tuples in a set. A method is the     *)
(* sequence of the requests it awaits and of what it decides from their     *)
(* answers; the module Operations runs it. What is decided between an       *)
(* answer and the next request is part of the step of the answer. A read of *)
(* something no step changes (the user, the scope of an application, the    *)
(* type of a column) is part of the request that follows it.                *)
EXTENDS Naturals, FiniteSets, Sequences

(****************************************************************************)
(* Reads: a request and the checks of its answer, in the code's order. The  *)
(* first check that does not hold ends the method with its code.            *)
(****************************************************************************)
Check(is, rows, code) == [is |-> is, rows |-> rows, n |-> 0, code |-> code]

(* All of the rows, none, one at least, not all together, or just n exist.  *)
Has(rows, code) == Check("has", rows, code)

Lacks(rows, code) == Check("lacks", rows, code)

Some(rows, code) == Check("some", rows, code)

NotAll(rows, code) == Check("notAll", rows, code)

Exactly(n, rows, code) == [Check("exactly", rows, code) EXCEPT !.n = n]

(* Beside what is remembered: it held the rows; the rows are the same; one  *)
(* is new; some are new; none of them is new.                               *)
Noted(rows, code) == Check("noted", rows, code)

AsNoted(rows, code) == Check("asNoted", rows, code)

OneNew(rows, code) == Check("oneNew", rows, code)

SomeNew(rows, code) == Check("someNew", rows, code)

NoneNew(rows, code) == Check("noneNew", rows, code)

(* What depends on nothing the instance may change, and what the model      *)
(* knows nothing of: it may be as the method wants or not.                  *)
Given(truth, code) == [Check("given", {}, code) EXCEPT !.n = IF truth THEN 1 ELSE 0]

Perhaps(code) == Check("perhaps", {}, code)

(* None of the rows exists, or the answer does not say.                     *)
LacksOrUnsaid(rows, code) == Check("lacksOrUnsaid", rows, code)

Read(checks) == [do |-> "read", note |-> {}, checks |-> checks]

(* A read that is answered with an error ends the method, or counts as      *)
(* empty.                                                                   *)
required(code) == <<Read(<<Perhaps(code)>>)>>

emptyOnError == <<Read(<<>>)>>

(* A read whose rows are remembered, once its checks are made, in place of   *)
(* what was known of them.                                                  *)
Note(rows, checks) == [do |-> "read", note |-> rows, checks |-> checks]

(* A read that decides how the method goes on, and one that is repeated     *)
(* until the check holds, n times at most.                                  *)
If(check, then, else) == [do |-> "if", check |-> check, note |-> {}, then |-> then, else |-> else]

Until(check, n, then, else) == [do |-> "until", check |-> check, note |-> {}, n |-> n, then |-> then, else |-> else]

(* One of these whose rows are remembered.                                  *)
Noting(rows, step) == [step EXCEPT !.note = rows]

No == ""

(****************************************************************************)
(* Writes                                                                   *)
(****************************************************************************)
(* A way a write can go: where "has" holds and "lacks" does not, facts come *)
(* and go, and the answer is a success or a code.                           *)
Way(has, lacks, add, del) == [has |-> has, lacks |-> lacks, add |-> add, del |-> del \ add, code |-> No]

Answered(code, way) == [way EXCEPT !.code = code]

NotApplied == Way({}, {}, {}, {})

(* The row of its kind there is: those of the others go.                    *)
Becomes(row, rows) == Way({}, {}, {row}, rows)

(* A write whose failure ends the method, is kept for later, or either.     *)
Write(ways) == [do |-> "write", ways |-> ways, fails |-> {"throw"}]

WriteQuietly(ways) == [Write(ways) EXCEPT !.fails = {"keep"}]

WriteEither(ways) == [Write(ways) EXCEPT !.fails = {"throw", "keep"}]

(****************************************************************************)
(* What needs no request                                                    *)
(****************************************************************************)
(* From here on a request that fails ends the method with this code.        *)
Phase(code) == [do |-> "phase", code |-> code]

(* What the answer will say of the instance.                                *)
Claim(facts) == [do |-> "claim", facts |-> facts]

(* From here on an error of the method says that something may have been    *)
(* written: its class does (a MetadataScopeError is a refusal before the    *)
(* form POST), or its details do (writeAttempted; the state a set is in).   *)
Tells == [do |-> "tells"]

IfNoted(rows, then, else) == [do |-> "ifNoted", rows |-> rows, then |-> then, else |-> else]

(* Something of the method failed, and it goes on.                          *)
Trouble == [do |-> "trouble"]

IfTroubled(then, else) == [do |-> "ifTroubled", then |-> then, else |-> else]

IfCaught(code, then, else) == [do |-> "ifCaught", code |-> code, then |-> then, else |-> else]

Throw(code) == [do |-> "throw", code |-> code]

Rethrow == Throw("caught")

Troubled(code) == IfTroubled(<<Throw(code)>>, <<>>)

Try(body, handler) == [do |-> "try", then |-> body, else |-> handler]

Attempt(body) == Try(body, <<>>)

RECURSIVE Claimed(_)
(* All that a method may come to say.                                       *)
Claimed(steps) ==
    UNION {IF steps[i].do = "claim" THEN steps[i].facts
           ELSE IF "then" \in DOMAIN steps[i] THEN Claimed(steps[i].then) \cup Claimed(steps[i].else)
           ELSE {} : i \in DOMAIN steps}
================================================================================
