---------------------------- MODULE MCVectorize -----------------------------
(* Instance of Vectorize for TLC.  0 is a letter, 1 and 2 are Chinese      *)
(* characters; p < pp < ppp < q < l in the order of the bytes.  ppp is p   *)
(* and pp together, and l is so long that its pairs are cleaned away.      *)
EXTENDS Vectorize

p == <<1, 1>>
pp == <<1, 1, 1>>
ppp == p \o pp
q == <<2, 1>>
l == <<2, 2, 2, 2, 2, 2, 2, 2, 2>>
stop == <<2, 2>>
latin == <<0, 0, 0, 0, 0>>
short == <<2>>

Line(label, words) == [label |-> label, words |-> words]
Pos(words) == Line("pos", words)
Neg(words) == Line("neg", words)

Sample(pos, neg) == [pos |-> pos, neg |-> neg]

\* Directories whose files hold samples of their own label.
PlainSamples ==
  {Sample(<<Pos(<<q, p>>)>>, <<Neg(<<q>>), Neg(<<q>>), Neg(<<p>>)>>),
   Sample(<<Pos(<<p, p, q>>)>>, <<Neg(<<p>>)>>),
   Sample(<<Pos(<<p>>)>>, <<>>)}

\* Lines without a tab and with the label of the other file.
Mislabelled == Sample(<<Line("none", <<p>>), Neg(<<p>>), Pos(<<q>>)>>,
                      <<Neg(<<q>>), Pos(<<p>>), Neg(<<q, p>>)>>)

\* A label that is neither of the two.
Unlabelled == Sample(<<Line("other", <<p, latin>>)>>,
                     <<Neg(<<q>>), Neg(<<q, short>>)>>)

\* And others: no file, no tab, no known label, a label of the other file,
\* words that are cleaned away, a word that is two others.
MixedSamples == PlainSamples \cup
  {Sample(Missing, <<Neg(<<p>>), Neg(<<q, p>>)>>),
   Sample(<<Pos(<<p>>)>>, Missing),
   Mislabelled, Unlabelled,
   Sample(<<Pos(<<p, ppp, pp>>)>>, <<Neg(<<pp>>), Neg(<<pp, stop>>), Neg(<<ppp>>)>>),
   Sample(<<Pos(<<l, q>>)>>, <<Neg(<<q>>), Neg(<<q, stop, p>>), Neg(<<p>>)>>)}

TheStopWords == {stop}
TheJunk == {0, 1}
TheFeatures ==
  <<[term |-> q, weight |-> <<1, 2>>], [term |-> p \o q, weight |-> <<0, 1>>]>>

\* Behind the end lies a term of the samples with another weight, or an empty string.
OneStray == {[term |-> p, weight |-> <<7, 1>>]}
TheStrays == OneStray \cup {[term |-> <<>>, weight |-> <<0, 1>>]}
=============================================================================
