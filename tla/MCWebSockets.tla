---------------------------- MODULE MCWebSockets ----------------------------
\* The two endpoints that are mounted, and two connections.
EXTENDS WebSockets, TLC
CONSTANTS s1, s2, chat, notify

TwoSockets == {s1, s2}
TwoReadings == {1, 2}
MountedPaths == {chat, notify}
OperationIds == chat :> "_live-chat" @@ notify :> "notify"
OnlyChat == {chat}
OnlyNotify == {notify}
=============================================================================
