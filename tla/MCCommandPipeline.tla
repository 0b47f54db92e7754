------------------------- MODULE MCCommandPipeline --------------------------
(***************************************************************************)
(* Requests and constants of CommandPipeline for TLC.                      *)
(***************************************************************************)
EXTENDS CommandPipeline, TLC

CONSTANTS a1, a2, a3

Command(n, t) == [n |-> n, tid |-> t, via |-> "bot", bot |-> FALSE, text |-> "known"]
MiniApp(n, t) == [n |-> n, tid |-> t, via |-> "miniapp", bot |-> FALSE, text |-> "known"]

\* One person over both channels, who also chats with the bot.
MeetRequests ==
  {Command(1, 7), Command(2, 7), MiniApp(3, 7),
   [n |-> 4, tid |-> 7, via |-> "bot", bot |-> FALSE, text |-> "chatter"]}

\* The same person in one channel, among requests that are turned away: a bot
\* account and a stranger.
BurstRequests ==
  {Command(1, 7),
   [n |-> 2, tid |-> 7, via |-> "bot", bot |-> FALSE, text |-> "unknown"],
   [n |-> 3, tid |-> 9, via |-> "miniapp", bot |-> TRUE, text |-> "known"],
   Command(4, 9)}

\* Account ids are interchangeable.
MCSymmetry == Permutations({a1, a2, a3})
=============================================================================
