----------------------------- MODULE MCChatRepl -----------------------------
(* Instances of ChatRepl for TLC.                                            *)
EXTENDS ChatRepl

\* A reply that thinks and answers with noise in between, one that goes back to
\* thinking, one whose first piece is control bytes and that goes on after [DONE].
ThreeStreams == {<<"thought", "noise", "both", "word">>, <<"word", "thought">>,
                 <<"control", "[DONE]", "word">>}
\* An answer of an earlier talk that had no system message.
EarlierTalk == <<Said("user", <<"hello">>, <<>>), Said("assistant", <<"word">>, <<>>)>>
Files == {[kind |-> "absent", messages |-> <<>>], [kind |-> "foreign", messages |-> <<>>],
          [kind |-> "history", messages |-> EarlierTalk]}
TwoTexts == {"hello", "/what"}
=============================================================================
