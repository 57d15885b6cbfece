------------------------- MODULE ComplexityClassifier -------------------------
(***************************************************************************)
(* app/complexity_classifier.py: the tier of a prompt.  A prompt is reduced *)
(* to what classify() looks at: whether a quality pattern and whether a     *)
(* fast pattern match, and how many words it has.                           *)
(***************************************************************************)
EXTENDS Integers

CONSTANT TOKEN_THRESHOLD

\* ComplexityTier
Tiers == {"FAST", "QUALITY"}

Prompt == [quality : BOOLEAN, fast : BOOLEAN, words : Nat]

\* Mutant: a fast signal wins over a quality signal.
Classify_FastFirst(p) ==
    CASE p.fast                     -> "FAST"
      [] ~p.fast /\ p.quality       -> "QUALITY"
      [] OTHER                      -> IF p.words >= TOKEN_THRESHOLD THEN "QUALITY" ELSE "FAST"

\* Quality signals first, then fast signals, then length.
Classify(p) ==
    IF p.quality \/ (~p.fast /\ p.words >= TOKEN_THRESHOLD) THEN "QUALITY" ELSE "FAST"

\* What a client sends: a tier, or "auto" to have its prompt classified.
Ask == [tier : Tiers \union {"auto"}, prompt : Prompt]

TierOf(a) == IF a.tier = "auto" THEN Classify(a.prompt) ELSE a.tier
=============================================================================
