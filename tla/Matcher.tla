------------------------------- MODULE Matcher -------------------------------
(***************************************************************************)
(* The keyword matcher of the local moderation backend: AhoCorasickMatcher *)
(* of security/moderation.py.  A node of the trie is named by the word     *)
(* that leads to it; words are casefolded and never empty.                 *)
(***************************************************************************)
EXTENDS Naturals, Sequences, FiniteSets
LOCAL INSTANCE SequencesExt

CONSTANTS
    Letter,
    MaxTerms,  \* bound: terms of a policy
    MaxWord,   \* bound: letters of a term
    MaxText    \* bound: letters of a text

Words(n) == UNION {[1..k -> Letter] : k \in 1..n}

\* _goto: the nodes of the trie.
Nodes(terms) == {<<>>} \cup UNION {{SubSeq(t, 1, n) : n \in 1..Len(t)} : t \in terms}

\* From a node on a letter: up the failure links to a node that has an edge for
\* it, or to the root.
Follow(nodes, fail, node, letter) ==
    LET go[w \in nodes] ==
            IF Append(w, letter) \in nodes THEN Append(w, letter)
            ELSE IF w = <<>> THEN <<>>
            ELSE go[fail[w]]
    IN  go[node]

\* _fail: the links of the nodes, shorter words first.
Fail(nodes) ==
    LET fail[w \in nodes] ==
            IF Len(w) <= 1 THEN <<>>
            ELSE Follow(nodes, fail, fail[Front(w)], Last(w))
    IN  fail

\* _output: the terms that end at a node.
Output(terms, nodes, fail) ==
    LET output[w \in nodes] ==
            ({w} \cap terms) \cup (IF Len(w) <= 1 THEN {} ELSE output[fail[w]])
    IN  output

\* find: the automaton reads the text letter by letter.
Find(terms, text) ==
    LET nodes == Nodes(terms)
        fail == Fail(nodes)
        output == Output(terms, nodes, fail)
        state[n \in 0..Len(text)] ==
            IF n = 0 THEN <<>> ELSE Follow(nodes, fail, state[n - 1], text[n])
    IN  UNION {output[state[n]] : n \in 0..Len(text)}

\* Reference: the term is a contiguous part of the text.
Occurs(term, text) ==
    \E i \in 1..(Len(text) - Len(term) + 1) : SubSeq(text, i, i + Len(term) - 1) = term

\* The automaton finds exactly the terms that occur, overlapping and nested
\* ones included.
ASSUME MatcherIsExact ==
    \A terms \in {T \in SUBSET Words(MaxWord) : Cardinality(T) <= MaxTerms} :
        \A text \in [1..MaxText -> Letter] :
            Find(terms, text) = {t \in terms : Occurs(t, text)}
=============================================================================
