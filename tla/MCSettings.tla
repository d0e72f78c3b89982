---------------------------- MODULE MCSettings -----------------------------
(***************************************************************************)
(* Settings for TLC: every text of a few lines, and whole settings files.  *)
(***************************************************************************)
EXTENDS Settings

Frontend == <<"frontend_address=", ":", "1", "9">>
FrontendTooHigh == <<"frontend_address=", ":", "9", "1">>
FrontendWraps == <<"frontend_address=", ":", "1", "9", "9">>
Backend == <<" ", "backend_address=", "x", ":", "0", ":", "1">>
Rate == <<"timecode_fps=", " ", "9">>
List == <<"a=", "[", "1", ",", " ", "-", "9", "]">>
LongList == <<"b=", "[", "1", ",", "1", "9", "1", "9", "]">>
RateWraps == <<"timecode_fps=", "9", "9">>
Again == <<"a=", "9", " ">>
Spaced == <<"x", " ", "=", "9", " ">>

\* The names that do not fit their place.
LongNames == {<<"frontend_address=">>}

\* A comment that is one longer than the buffer, and one that is longer still.
Comment == <<"#">> \o [i \in 1..Cap |-> "x"]
LongComment == Comment \o <<"[own]">>

ShortLines == {
    <<"[agents]">>, <<"[own]">>, <<"[other]">>, <<"[", "x", "]">>, <<"[", "x">>, <<>>,
    Frontend, Backend, Rate, Spaced, Comment}

ThreeLines ==
    {a \o <<"lf">> \o b \o <<"cr", "lf">> \o c : a, b, c \in ShortLines}

\* Settings files: [agents] before and after the section of the agent.
Agents == <<"[agents]", "lf">> \o Frontend \o <<"lf">> \o Backend \o <<"lf">> \o Rate
NegativeRate ==
    <<"[agents]", "lf">> \o RateWraps \o <<"lf">> \o Frontend \o <<"lf">> \o Backend
OtherAgents ==
    <<"[agents]", "lf">> \o FrontendWraps \o <<"lf">> \o FrontendTooHigh \o <<"lf">> \o Backend \o <<"lf">> \o Rate
Own == <<"[own]", "lf">> \o List \o <<"cr", "lf", "=", "1", "lf">>
       \o Again \o <<"lf">> \o LongList
Files == {Agents, OtherAgents, NegativeRate}
         \cup {a \o <<"lf">> \o Own : a \in {Agents, OtherAgents}}
         \cup {Own \o <<"lf">> \o Agents \o <<"lf">>, LongComment \o <<"lf">> \o Own}

AllTexts == ThreeLines \cup Files
=============================================================================
