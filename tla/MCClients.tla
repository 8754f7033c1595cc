------------------------------- MODULE MCClients -------------------------------
(***************************************************************************)
(* The programs beside the web server.  RobotTest and the demonstrations     *)
(* share nothing; each behaviour is one of either, the other being at rest.  *)
(***************************************************************************)
EXTENDS RobotTest, DemosSetting

VARIABLE program  \* the one that runs

D == INSTANCE Demos

demosVars == <<demo, server, runs, lingers, SvrAddr, inbox, backlog, conn, client,
               upstream, down, body, heard, told, shown>>

MCBodies == {<<1, 10, 80>>, <<4, 127, 0>>}

AtRest == demo = "TCP" /\ \A b, c \in Clients : body[b] = body[c]

MCInit ==
    /\ Init /\ D!Init
    /\ program \in {"RobotTest", "Demos"}
    /\ program = "RobotTest" => AtRest

MCVars == <<program, robotTestVars, demosVars>>
Runs(name) == program = name /\ UNCHANGED program

InRobotTest(A) == Runs("RobotTest") /\ A /\ UNCHANGED demosVars
InDemos(A) == Runs("Demos") /\ A /\ UNCHANGED robotTestVars
MCNext == InRobotTest(Next) \/ InDemos(D!Next)

MCSpec ==
    /\ MCInit /\ [][MCNext]_MCVars
    /\ WF_MCVars(InRobotTest(Client))
    /\ WF_MCVars(InRobotTest(Robot))
    /\ WF_MCVars(InDemos(D!Server))
    /\ \A c \in Clients : WF_MCVars(InDemos(D!Client(c)))

-------------------------------------------------------------------------------
(* The client that a demonstration server takes ends with its answer, and   *)
(* one that it leaves in the backlog ends as well.                          *)
TakenIsAnswered == D!TakenIsAnswered
===============================================================================
