----------------------------- MODULE Dictionary -----------------------------
(***************************************************************************)
(* A dictionary as its users see it: loaded from its text or its cache     *)
(* (DictionaryCache), from lines that were read in blocks (LineReader),    *)
(* with keys and texts that are normalised (KStringText), for the tokens   *)
(* of a line (Tokenizer) and the words and titles that are compared by     *)
(* them (WordEmbeddings).  What is done with texts has no state and is     *)
(* compared with what it stands for on all short texts, files and lines.   *)
(***************************************************************************)
EXTENDS DictionaryCache, WordEmbeddings, LineReader

IsUp == \E p \in Processes : pc[p] = "up"

\* The keys of a dictionary that is up and the texts looked up in it were
\* normalised alike: a text that is normalised stays as it is, and its words are
\* those that split gives.  And replace, which no dictionary calls, is right for a
\* text with one place to replace and a text there that is not shorter; for others it
\* is not what its comment says, "Replace all".  It is about kstring.hpp and normalize.h.
TextsRight == IsUp => WrongTexts = {}

\* A dictionary that is up was read line by line, whatever blocks its file falls
\* into: no line is cut, given twice or out of order, and none is missing from a
\* file without empty lines.  It is about LineReader.
LinesRead == IsUp => Misread = {}

\* The tokens of a line are the line: fmm cuts it into longest keys, and merge_
\* takes away just the ends between two flagged tokens.  Their weights are set, if
\* the dictionary has values, and the tokens that are rewritten are there: the
\* index of rewrite_ steps back behind zero only if a word is rewritten to a space,
\* since a normalised line begins with none.  And the parts that a long token is
\* given as (subSegment) are all of it, in order and but for the delimiters between
\* them; they are several, and one is a word.
TokensCover == IsUp => Uncovered = {} /\ Unparted = {}

\* Two titles are compared by their terms, the words that are not cleaned away and
\* the pairs of neighbours: what has a word in common is similar, and with no term
\* twice the similarity is symmetric, at most 1, and 1 for the same terms only.
TermsCompared == IsUp => Miscompared = {}

\* A word of a model of word vectors is found at its own vector, whatever longer
\* words are around it, and the nearest words come out nearest first, none twice and
\* none left out that is nearer than one in the list: among them the word itself,
\* or another one instead, since the number that is left out is one that nobody set.
\* (Comments say that a word is not listed near itself, and that one which is not in
\* the model gives the index -1: the code does neither.)  A vector behind the end of
\* the matrix is read for a word only that the model does not have, if it is shorter
\* than an entry.
NearestTerms == IsUp => Misplaced = {} /\ Misordered = {}
=============================================================================
