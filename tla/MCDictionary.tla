---------------------------- MODULE MCDictionary ----------------------------
(* Instance for TLC of all that a dictionary takes part in: its cache, the *)
(* reading of its lines, the tokens it gives, titles and word vectors.     *)
EXTENDS MCDictionaryCache, Dictionary

\* A full-width capital becomes "a"; texts with spaces, signs and Chinese.
TheAlphabet == {Space, "full A", "-", "trad", "simp"}
ThePatterns == {<<>>, <<"simp">>, <<"-">>, <<"simp", "-">>, <<"-", "-">>}

C == "simp"
Word == {<<C, C>>, <<C, C, C>>, <<"a", C>>, <<"a", Space, C>>}
Phrase == {<<C, C, C, C>>, <<C, "-">>, <<C, "-", C, C>>, <<"a", "a">>}
TheDictionaries ==
  {[keys |-> Word \cup Phrase, weight |-> [k \in Word \cup Phrase |-> Len(k)]],
   [keys |-> Word, weight |-> <<>>],
   [keys |-> {<<C, C>>}, weight |-> [k \in {<<C, C>>} |-> 2]]}

TheRewritings ==
  {[k \in {<<C>>} |-> <<"a", "-">>], [k \in {<<"a">>, <<C, C>>} |-> IF k = <<"a">> THEN <<Space>> ELSE <<C>>]}

\* Words of one and two characters, and of as many as an entry has, or more.
W == <<<<C>>, <<"a", C, C, C>>, <<"a">>, <<"a", C, "-">>, <<C, C>>>>
Near == <<<<9, 2, -1, 2, 5>>, <<2, 9, 3, 3, 0>>, <<-1, 3, 9, 4, 1>>, <<2, 3, 4, 9, -2>>, <<5, 0, 1, -2, 9>>>>
TheModels ==
  {[words |-> W, cosine |-> Near],
   [words |-> <<<<"a", C, C>>, <<C>>, <<"a", C>>>>, cosine |-> <<<<9, 1, 4>>, <<1, 9, 4>>, <<4, 4, 9>>>>]}
TheStopTerms == {<<C, C>>}
=============================================================================
