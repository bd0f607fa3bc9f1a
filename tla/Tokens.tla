------------------------------- MODULE Tokens -------------------------------
(***************************************************************************)
(* Token arithmetic (src/pkg/tokens): what a text is estimated at, what a  *)
(* request may cost at most, and what tokens cost in credits.  A text is   *)
(* its number of words or of bytes.  Go divides int64 towards zero; every  *)
(* dividend here is non-negative.                                          *)
(***************************************************************************)
EXTENDS Integers

inputOverheadTokens == 32

AtLeastOne(n) == IF n < 1 THEN 1 ELSE n
NotNegative(n) == IF n < 0 THEN 0 ELSE n

\* About 1.3 tokens a word, at least one for any text.
Estimate(words) == IF words = 0 THEN 0 ELSE AtLeastOne((words * 13) \div 10)

\* No token is shorter than a byte, so bytes bound the prompt.
PromptCeiling(inputBytes) ==
    IF inputBytes > 0 THEN inputBytes + inputOverheadTokens ELSE 0

Ceiling(inputBytes, maxCompletion) ==
    PromptCeiling(inputBytes) + NotNegative(maxCompletion)

\* Rounds up, so that any usage costs at least one credit.
ToCredits(tokenCount, tokensPerCredit) ==
    LET per == AtLeastOne(tokensPerCredit)
    IN  IF tokenCount <= 0 THEN 0 ELSE AtLeastOne((tokenCount + per - 1) \div per)

=============================================================================
