----------------------------- MODULE MCMarchRepl -----------------------------
(* Instances of MarchRepl for TLC. *)
EXTENDS MarchRepl

\* One input of each kind: one that needs no module, one that needs a module the
\* session starts with and two it loads, one that cannot run in a browser.
MCInputs == {"blank", ":clear", ":reset", "h(map)", "1+1", "AhoCorasick", "File"}

MCKind == [c \in MCInputs |->
             CASE c = "blank"  -> "blank"
               [] c = ":clear" -> "clear"
               [] c = ":reset" -> "reset"
               [] c = "h(map)" -> "lookup"
               [] OTHER        -> "code"]

\* Inputs on their own, and pasted transcripts: an empty prompt before a user of
\* modules, such a user before a reset, a screen command before a look-up.
MCTexts == {<<c>> : c \in {":reset", "1+1", "AhoCorasick", "File"}} \cup
           {<<"blank", "AhoCorasick">>, <<"AhoCorasick", ":reset">>, <<":clear", "h(map)">>}

MCFiles == {"option", "queue", "aho_corasick"}
MCCore  == {"option"}
MCUnavailable == {"File"}

\* AhoCorasick uses Option and Queue, and dependencies come first.
MCModulesNeeded(c, m) ==
  IF c = "AhoCorasick"
  THEN SelectSeq(<<"option", "queue", "aho_corasick">>, LAMBDA f : f \notin m)
  ELSE <<>>
=============================================================================
