---------------------------- MODULE MCConnection ----------------------------
(* The processes of WebKit2 and messages they really exchange, as instances *)
(* of Connection for TLC.                                                   *)
EXTENDS Connection

Send(from, to) ==
    [from |-> from, to |-> to, sync |-> FALSE, marked |-> FALSE, ordered |-> FALSE,
     forced |-> FALSE, unbounded |-> FALSE, timeout |-> FALSE, delayed |-> FALSE, nested |-> FALSE]
SendSync(from, to) == [Send(from, to) EXCEPT !.sync = TRUE, !.marked = TRUE]

BothWays(links) == links \cup {<<l[2], l[1]>> : l \in links}

\* The UI process and one web process (WebProcessProxy::connectionWillOpen).
UIAndWeb == {"UI", "Web"}
UIWebLinks == BothWays({<<"UI", "Web">>})
UIEnd == {<<"UI", "Web">>}
WebEnd == {<<"Web", "UI">>}

\* Synchronous messages both ways, a plain one, and one that is dispatched even
\* while the UI process waits (WebEditorClient::registerUndoStep).
TwoWaySites == {SendSync("Web", "UI"), SendSync("UI", "Web"), Send("Web", "UI"),
                [Send("Web", "UI") EXCEPT !.marked = TRUE]}

\* A message the UI process answers when the user has (RunJavaScriptAlert), and
\* which keeps its order with plain ones, while the UI process sends synchronous
\* messages with a timeout to a web process that may crash.
DelayedAndTimeoutSites == {[SendSync("Web", "UI") EXCEPT !.delayed = TRUE, !.ordered = TRUE],
                           [SendSync("UI", "Web") EXCEPT !.timeout = TRUE],
                           Send("Web", "UI")}
OnlyWeb == {"Web"}

\* TestProcessIncomingSyncMessagesWhenWaitingForSyncReply: the web process asks
\* the network process, which asks the UI process, which asks the web process
\* from the handler of that message.
\* A marked message of the web process reaches the UI process next to the one of
\* the network process.
ThreeProcesses == {"UI", "Web", "Net"}
Triangle == BothWays({<<"UI", "Web">>, <<"UI", "Net">>, <<"Net", "Web">>})
EndsToWeb == {<<"UI", "Web">>, <<"Net", "Web">>}
CycleSites == {[SendSync("Web", "Net") EXCEPT !.unbounded = TRUE],
               SendSync("Net", "UI"),
               [SendSync("UI", "Web") EXCEPT !.forced = TRUE, !.nested = TRUE],
               [Send("Web", "UI") EXCEPT !.marked = TRUE]}

=============================================================================
