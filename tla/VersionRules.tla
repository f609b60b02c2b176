---------------------------- MODULE VersionRules ----------------------------
(***************************************************************************)
(* Strict versions, their order, and the requirements that select among    *)
(* them, as the three implementations of this repository compute them:     *)
(* packages/plugin-spec/src/semver.ts, go/platformspec/semver.go and       *)
(* crates/soksak-spec-contract/src/lib.rs.                                  *)
(*                                                                         *)
(* A version is its three numbers and its prerelease identifiers; build    *)
(* metadata decides nothing and is left out.  TypeScript compares and      *)
(* counts in integers of any size, Rust in strings of digits; Go counts in *)
(* integers and compares strings of digits.  A clause is its operator and  *)
(* boundary, Unclear when it does not parse.  Of the text of a version     *)
(* only its core is measured: a clause that is too long by what follows    *)
(* the core is Unclear, too.                                               *)
(***************************************************************************)
EXTENDS Integers, Sequences, FiniteSets

CONSTANTS
    Star, Unclear,
    MaxClauses,    \* MAX_DEPENDENCY_CLAUSES, 16 in the code
    MaxLength      \* MAX_SEMVER_LENGTH, 256 in the code

ASSUME ClausesAssumption ==
    MaxClauses \in Nat \ {0} /\ MaxLength \in Nat /\ Star # Unclear

Operators == {"^", "~", ">=", "<=", ">", "<", "="}

Version(core, pre) == [core |-> core, pre |-> pre]

Numeric(n) == [numeric |-> TRUE, rank |-> n]

Word(n) == [numeric |-> FALSE, rank |-> n]   \* the n-th word in byte order

Sign(a, b) == IF a = b THEN 0 ELSE IF a < b THEN -1 ELSE 1

\* The first of a sequence of comparisons that is not a tie.
FirstDifference(signs) ==
    LET differing == {i \in DOMAIN signs : signs[i] # 0}
    IN IF differing = {} THEN 0
       ELSE signs[CHOOSE i \in differing : \A j \in differing : i <= j]

CompareIdentifier(a, b) ==
    IF a.numeric = b.numeric THEN Sign(a.rank, b.rank)
    ELSE IF a.numeric THEN -1 ELSE 1

Shared(a, b) == 1 .. IF Len(a) < Len(b) THEN Len(a) ELSE Len(b)

\* The list that ends first comes first; no list at all comes last.
PrereleaseOrder(a, b, signs) ==
    IF a = <<>> \/ b = <<>> THEN IF a = b THEN 0 ELSE IF a = <<>> THEN 1 ELSE -1
    ELSE FirstDifference(signs \o <<Sign(Len(a), Len(b))>>)

ComparePrerelease(a, b) ==
    PrereleaseOrder(a, b, [i \in Shared(a, b) |-> CompareIdentifier(a[i], b[i])])

SemverCompare(a, b) ==
    FirstDifference([i \in 1 .. 3 |-> Sign(a.core[i], b.core[i])]
                    \o <<ComparePrerelease(a.pre, b.pre)>>)

-----------------------------------------------------------------------------
(* The order of versions as semver.org words it, which compares nothing.   *)

Cores == [1 .. 3 -> Nat]

Identifiers == [numeric : BOOLEAN, rank : Nat]

Versions == [core : Cores, pre : Seq(Identifiers)]

\* Numbers come before words.
Before(a, b) == (a.numeric /\ ~b.numeric) \/ (a.numeric = b.numeric /\ a.rank < b.rank)

\* A prerelease comes before the release; of two, the one that ends first or is
\* before the other where they part.
PrereleasePrecedes(a, b) == a # <<>> /\
    \/ b = <<>>
    \/ \E n \in 0 .. Len(a) :
           /\ n < Len(b) /\ \A i \in 1 .. n : a[i] = b[i]
           /\ n = Len(a) \/ Before(a[n + 1], b[n + 1])

Precedes(v, w) ==
    \/ \E i \in 1 .. 3 : v.core[i] < w.core[i] /\ \A j \in 1 .. i - 1 : v.core[j] = w.core[j]
    \/ v.core = w.core /\ PrereleasePrecedes(v.pre, w.pre)

-----------------------------------------------------------------------------
(* Numbers as strings of digits, in Rust and Go.                           *)

Digits[n \in Nat] == IF n < 10 THEN <<n>> ELSE Digits[n \div 10] \o <<n % 10>>

IsStrictSemver(v) ==
    Len(Digits[v.core[1]]) + Len(Digits[v.core[2]]) + Len(Digits[v.core[3]]) + 2 <= MaxLength

\* Defect: digit by digit, whatever the lengths.
CompareDigitsOnly(a, b) ==
    FirstDifference([i \in Shared(a, b) |-> Sign(a[i], b[i])] \o <<Sign(Len(a), Len(b))>>)

CompareDigits(a, b) ==
    FirstDifference(<<Sign(Len(a), Len(b))>> \o [i \in Shared(a, b) |-> Sign(a[i], b[i])])

\* The nines at the end carry; nothing but nines gets a digit more.
IncrementDecimal(a) ==
    LET below == {i \in DOMAIN a : a[i] < 9}
        last == IF below = {} THEN 0 ELSE CHOOSE i \in below : \A j \in below : j <= i
    IN IF below = {} THEN <<1>> \o [i \in DOMAIN a |-> 0]
       ELSE [i \in DOMAIN a |-> IF i < last THEN a[i] ELSE IF i = last THEN a[i] + 1 ELSE 0]

IdentifierInDigits(x) == IF x.numeric THEN Numeric(Digits[x.rank]) ELSE x

InDigits(v) ==
    Version([i \in 1 .. 3 |-> Digits[v.core[i]]],
            [i \in DOMAIN v.pre |-> IdentifierInDigits(v.pre[i])])

\* prerelease_identifier_cmp of the Rust crate.
CompareIdentifierInDigits(a, b) ==
    IF a.numeric # b.numeric THEN IF a.numeric THEN -1 ELSE 1
    ELSE IF a.numeric THEN CompareDigits(a.rank, b.rank) ELSE Sign(a.rank, b.rank)

CompareInDigits(a, b) ==
    FirstDifference(
        [i \in 1 .. 3 |-> CompareDigits(a.core[i], b.core[i])]
        \o <<PrereleaseOrder(a.pre, b.pre,
                [i \in Shared(a.pre, b.pre) |-> CompareIdentifierInDigits(a.pre[i], b.pre[i])])>>)

\* golang.org/x/mod/semver: the texts first, then the place where they part.
Parting(a, b) ==
    CHOOSE i \in Shared(a, b) : a[i] # b[i] /\ \A j \in 1 .. i - 1 : a[j] = b[j]

CompareInt(a, b) ==
    IF a = b THEN 0 ELSE IF Len(a) < Len(b) THEN -1 ELSE IF Len(a) > Len(b) THEN 1
    ELSE Sign(a[Parting(a, b)], b[Parting(a, b)])

CompareIdent(a, b) ==
    IF a.numeric # b.numeric THEN IF a.numeric THEN -1 ELSE 1
    ELSE IF a.numeric THEN CompareInt(a.rank, b.rank) ELSE Sign(a.rank, b.rank)

ComparePrereleaseText(a, b) ==
    IF a = b THEN 0 ELSE IF a = <<>> THEN 1 ELSE IF b = <<>> THEN -1
    ELSE IF \A i \in Shared(a, b) : a[i] = b[i] THEN Sign(Len(a), Len(b))
    ELSE CompareIdent(a[Parting(a, b)], b[Parting(a, b)])

Compare(a, b) ==
    IF a.core = b.core THEN ComparePrereleaseText(a.pre, b.pre)
    ELSE CompareInt(a.core[Parting(a.core, b.core)], b.core[Parting(a.core, b.core)])

-----------------------------------------------------------------------------
(* Requirements.                                                           *)

\* The number of the core that ^ or ~ fixes last.
FixedLast(core, operator, zero) ==
    IF operator = "~" THEN 2
    ELSE IF core[1] # zero THEN 1 ELSE IF core[2] # zero THEN 2 ELSE 3

\* The first core that ^ or ~ leaves out, next being one more than each number.
Upper(core, operator, next, zero) ==
    LET last == FixedLast(core, operator, zero)
    IN [i \in 1 .. 3 |-> IF i < last THEN core[i] ELSE IF i = last THEN next[i] ELSE zero]

UpperBound(core, operator) ==
    Version(Upper(core, operator, [i \in 1 .. 3 |-> core[i] + 1], 0), <<>>)

UpperInDigits(core, operator) ==
    Version(Upper(core, operator, [i \in 1 .. 3 |-> IncrementDecimal(core[i])], <<0>>), <<>>)

ClauseHolds(operator, compared, comparedUpper) ==
    CASE operator \in {"^", "~"} -> compared >= 0 /\ comparedUpper < 0
      [] operator = ">=" -> compared >= 0
      [] operator = ">" -> compared > 0
      [] operator = "<=" -> compared <= 0
      [] operator = "<" -> compared < 0
      [] OTHER -> compared = 0

\* TypeScript parses the bound it computes for ^ and ~ again; the others do not.
BoundReadable(clause) ==
    clause.operator \in {"^", "~"} =>
        IsStrictSemver(UpperBound(clause.version.core, clause.operator))

SatisfiesClause(v, clause) ==
    /\ BoundReadable(clause)
    /\ ClauseHolds(clause.operator, SemverCompare(v, clause.version),
                   SemverCompare(v, UpperBound(clause.version.core, clause.operator)))

DependencyClauseSatisfied(v, clause) ==
    LET own == InDigits(v)
        upper == InDigits(UpperBound(clause.version.core, clause.operator))
    IN ClauseHolds(clause.operator, Compare(own, InDigits(clause.version)), Compare(own, upper))

ClauseSatisfied(v, clause) ==
    LET own == InDigits(v)
        boundary == InDigits(clause.version)
    IN ClauseHolds(clause.operator, CompareInDigits(own, boundary),
                   CompareInDigits(own, UpperInDigits(boundary.core, clause.operator)))

\* What TypeScript and Go read as a requirement.
IsDependencyRange(range) ==
    range # Star /\ Len(range) \in 1 .. MaxClauses
    /\ \A i \in DOMAIN range : range[i] # Unclear /\ IsStrictSemver(range[i].version)

IsUnitDependencyRange(range) == range = Star \/ IsDependencyRange(range)

\* A prerelease only if a clause names one of its own core.
PrereleaseNamed(v, boundaries) ==
    v.pre # <<>> =>
        \E i \in DOMAIN boundaries : boundaries[i].pre # <<>> /\ boundaries[i].core = v.core

BoundariesInDigits(range) == [i \in DOMAIN range |-> InDigits(range[i].version)]

\* TypeScript, Go and Rust; a version or a requirement none of them reads matches
\* nothing.
SemverSatisfies(v, range) ==
    /\ IsStrictSemver(v) /\ IsDependencyRange(range)
    /\ \A i \in DOMAIN range : SatisfiesClause(v, range[i])
    /\ PrereleaseNamed(v, [i \in DOMAIN range |-> range[i].version])

DependencyRequirementSatisfied(v, range) ==
    /\ IsStrictSemver(v) /\ IsDependencyRange(range)
    /\ \A i \in DOMAIN range : DependencyClauseSatisfied(v, range[i])
    /\ PrereleaseNamed(InDigits(v), BoundariesInDigits(range))

RustSatisfies(v, range) ==
    /\ IsStrictSemver(v) /\ IsUnitDependencyRange(range)
    /\ IF range = Star THEN v.pre = <<>>
       ELSE /\ \A i \in DOMAIN range : ClauseSatisfied(v, range[i])
            /\ PrereleaseNamed(InDigits(v), BoundariesInDigits(range))
=============================================================================
