------------------------------ MODULE PatchSpec ------------------------------
(***************************************************************************)
(* make_patch_spec_v3.py: a list of entries, each the replacement of a     *)
(* span of lines of the manuscript, is applied in memory and the result is *)
(* checked; the specification and the patched manuscript are written only  *)
(* if every check passes.  A line is a name, and Text says of a line what  *)
(* the checks look at.  The sentence seams, which are only printed, are    *)
(* left out.                                                               *)
(***************************************************************************)
EXTENDS Integers, Sequences, FiniteSets, FiniteSetsExt, SequencesExt

CONSTANTS
    AgreedBase,  \* the manuscript the spans were written against
    RETIRED,     \* the patterns that must be gone
    Text         \* line -> [long, retired, tbd, open, labels, refs, decimals]

Blank == ""
ASSUME TextAssumption ==
    /\ Blank \in DOMAIN Text
    /\ AgreedBase \in Seq(DOMAIN Text)
    /\ \A l \in DOMAIN Text : Text[l].retired \subseteq RETIRED

Entry(a, b, repl) == [a |-> a, b |-> b, repl |-> repl]
Delta(e) == Len(e.repl) - (e.b - e.a + 1)

\* E.sort, stable as Python's.
Sorted(E) ==
    LET Before(j, i) == \/ E[j].a < E[i].a
                        \/ E[j].a = E[i].a /\ E[j].b < E[i].b
                        \/ E[j].a = E[i].a /\ E[j].b = E[i].b /\ j < i
    IN [k \in DOMAIN E |->
          E[CHOOSE i \in DOMAIN E : Cardinality({j \in DOMAIN E : Before(j, i)}) = k - 1]]

\* lines[a - 1:b], which stops at the end of the list.
cur(lines, a, b) == SubSeq(lines, a, Min({b, Len(lines)}))

\* lines[a - 1:b] = repl.
Splice(lines, e) ==
    LET n == Len(lines)
        from == Min({e.a - 1, n})
    IN SubSeq(lines, 1, from) \o e.repl \o SubSeq(lines, Max({Min({e.b, n}), from}) + 1, n)

\* From the highest line number to the lowest; of two entries with the same
\* first line, reverse=True keeps the order.
BottomUp(E) ==
    LET s == Sorted(E)
        Later(j, i) == s[j].a > s[i].a \/ (s[j].a = s[i].a /\ j < i)
    IN [k \in DOMAIN s |->
          s[CHOOSE i \in DOMAIN s : Cardinality({j \in DOMAIN s : Later(j, i)}) = k - 1]]
Applied(base, E) == FoldLeft(Splice, base, BottomUp(E))

----------------------------------------------------------------------------
(***************************************************************************)
(* difflib.SequenceMatcher with autojunk off: the longest common block,    *)
(* the first of them in a and then in b, and the same to its left and to   *)
(* its right.  What lies between two blocks is a hunk: lines b1 to b2 of a *)
(* became p1 to p2 of b, an insertion when b2 = b1 - 1.                    *)
(***************************************************************************)
MatchedPairs(a, b) ==
    LET Block(i, j, n) == \A k \in 0 .. n - 1 : a[i + k] = b[j + k]
        pairs[r \in (1 .. Len(a) + 1) \X (0 .. Len(a)) \X (1 .. Len(b) + 1) \X (0 .. Len(b))] ==
          LET alo == r[1]
              ahi == r[2]
              blo == r[3]
              bhi == r[4]
              blocks == {x \in (1 .. ahi - alo + 1) \X (alo .. ahi) \X (blo .. bhi) :
                           /\ x[2] + x[1] - 1 <= ahi /\ x[3] + x[1] - 1 <= bhi
                           /\ Block(x[2], x[3], x[1])}
              Better(x, y) == \/ x[1] > y[1]
                              \/ x[1] = y[1] /\ x[2] < y[2]
                              \/ x[1] = y[1] /\ x[2] = y[2] /\ x[3] <= y[3]
          IN IF blocks = {} THEN {}
             ELSE LET m == CHOOSE x \in blocks : \A y \in blocks : Better(x, y)
                      n == m[1]
                      i == m[2]
                      j == m[3]
                  IN {<<i + k, j + k>> : k \in 0 .. n - 1}
                       \cup pairs[<<alo, i - 1, blo, j - 1>>]
                       \cup pairs[<<i + n, ahi, j + n, bhi>>]
    IN pairs[<<1, Len(a), 1, Len(b)>>]

Hunks(a, b) ==
    LET ends == MatchedPairs(a, b) \cup {<<0, 0>>, <<Len(a) + 1, Len(b) + 1>>}
        Next1(m) == CHOOSE q \in ends : q[1] = Min({p[1] : p \in {x \in ends : x[1] > m[1]}})
    IN {[b1 |-> m[1] + 1, b2 |-> Next1(m)[1] - 1, p1 |-> m[2] + 1, p2 |-> Next1(m)[2] - 1] :
          m \in {x \in ends : x[1] <= Len(a) /\ Next1(x) # <<x[1] + 1, x[2] + 1>>}}

----------------------------------------------------------------------------
(***************************************************************************)
(* APPLIED-RESULT SELF-CHECK.  Each operator is true when its check fails. *)
(***************************************************************************)
Copies(lines, l) == Cardinality({i \in DOMAIN lines : lines[i] = l})
Body(lines) == {i \in DOMAIN lines : i < Len(lines) \/ lines[i] # Blank}
Blanks(lines) == Cardinality({i \in Body(lines) : lines[i] = Blank})
Total(lines, Of(_)) == MapThenSumSet(LAMBDA i : Of(Text[lines[i]]), DOMAIN lines)
Union(lines, Of(_)) == UNION {Of(Text[lines[i]]) : i \in DOMAIN lines}

BaseChanged(base) == base # AgreedBase
AdjacentDuplicate(out) ==
    \E i \in 1 .. Len(out) - 1 : out[i] # Blank /\ out[i] = out[i + 1]
DuplicatedBaseLine(base, out) ==
    \E l \in ToSet(base) : Text[l].long /\ Copies(out, l) > Copies(base, l)
\* An entry beyond the end of the file ends the script with an IndexError.
SpanContainsBlank(base, E) ==
    \E k \in DOMAIN E : \E i \in E[k].a .. E[k].b : i > Len(base) \/ base[i] = Blank
BlankTotalMoved(base, out) == Blanks(base) # Blanks(out)
RetiredPattern(base, out) ==
    \E p \in RETIRED : p \notin Union(base, LAMBDA t : t.retired)
                         \/ p \in Union(out, LAMBDA t : t.retired)
TbdCountChanged(base, out) == Total(base, LAMBDA t : t.tbd) # Total(out, LAMBDA t : t.tbd)
Unbalanced(out) == Total(out, LAMBDA t : t.open) # 0
DanglingRef(out) == ~(Union(out, LAMBDA t : t.refs) \subseteq Union(out, LAMBDA t : t.labels))

\* Where the replacement of entry k of the sorted list starts in the result.
Start(E, k) == E[k].a + MapThenSumSet(LAMBDA i : Delta(E[i]), 1 .. k - 1)

\* The entries a hunk is said to lie in.
Owners(E, h) ==
    {k \in DOMAIN E :
       \/ ~(h.b2 < E[k].a \/ h.b1 > E[k].b)
       \/ h.b2 = h.b1 - 1 /\ h.b1 \in E[k].a .. E[k].b + 1}
\* Mutant: without the condition the script calls an invariant of the applier.
HunksMisplaced(base, out, E) ==
    LET hunks == Hunks(base, out)
        s == Sorted(E)
    IN \/ \E h \in hunks : Cardinality(Owners(s, h)) # 1
       \/ \E k \in DOMAIN s : \A h \in hunks : Owners(s, h) # {k}
RoundTripBroken(base, out, E) ==
    LET hunks == Hunks(base, out)
        s == Sorted(E)
    IN \/ \E h \in hunks : Cardinality(Owners(s, h)) # 1
       \/ \E k \in DOMAIN s : \A h \in hunks : Owners(s, h) # {k}
       \/ \E k \in DOMAIN s :
            cur(out, Start(s, k), Start(s, k) + Len(s[k].repl) - 1) # s[k].repl
LineAccounting(base, out, E) ==
    Cardinality(Body(base)) + MapThenSumSet(LAMBDA k : Delta(E[k]), DOMAIN E)
      # Cardinality(Body(out))

ChecksFail(base, E) ==
    LET out == Applied(base, E) IN
    \/ BaseChanged(base) \/ AdjacentDuplicate(out) \/ DuplicatedBaseLine(base, out)
    \/ SpanContainsBlank(base, E) \/ BlankTotalMoved(base, out)
    \/ RetiredPattern(base, out) \/ TbdCountChanged(base, out)
    \/ Unbalanced(out) \/ DanglingRef(out)
    \/ RoundTripBroken(base, out, E) \/ LineAccounting(base, out, E)

\* The document: every entry in line order, with the text it replaces.
Document(base, E) ==
    LET s == Sorted(E) IN
    [k \in DOMAIN s |-> [a |-> s[k].a, b |-> s[k].b, cur |-> cur(base, s[k].a, s[k].b),
                         repl |-> s[k].repl]]
=============================================================================
