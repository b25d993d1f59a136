------------------------------- MODULE MainWindow -------------------------------
(***************************************************************************)
(* The window of the program (src/main.cpp): the chat widget, which is the *)
(* window itself, and the player in it.  They share the GUI thread and     *)
(* nothing else, so that a behaviour follows one of them, which `part'     *)
(* names.                                                                  *)
(***************************************************************************)
EXTENDS ChatWidget, PlayerWidget

VARIABLE part

windowVars == <<part, vars, playerVars>>

WindowTypeOK == TypeOK /\ PlayerTypeOK /\ part \in {"chat", "player"}

\* The part that does not move begins in one state.
WindowInit ==
    /\ part \in {"chat", "player"}
    /\ Init /\ (part = "player" => occupants = {})
    /\ PlayerInit

InChat(step) == part = "chat" /\ step /\ UNCHANGED <<part, playerVars>>
InPlayer(step) == part = "player" /\ step /\ UNCHANGED <<part, vars>>

WindowNext == InChat(Next) \/ InPlayer(PlayerNext)

\* The event loop delivers what the network delivers, the server answers, a
\* closing socket closes, and processEvents() returns.  Fairness is strong
\* where the bound MaxQueue of the model disables a step now and then.
ChatFairness ==
    /\ SF_windowVars(InChat(Shown(Server))) /\ WF_windowVars(InChat(Shown(Presences)))
    /\ WF_windowVars(InChat(SessionEnds(SessionClosed)))
    /\ SF_windowVars(InChat(LogoutLeaves))

\* Threads run, futures finish and posted calls are served; nothing is
\* assumed of the user and of the network.
PlayerFairness ==
    /\ WF_windowVars(InPlayer(Switched))
    /\ \A w \in WorkerIds : WF_windowVars(InPlayer(Play(w)))
    /\ \A c \in CloserIds : /\ WF_windowVars(InPlayer(CloseAoDevice(c)))
                            /\ WF_windowVars(InPlayer(StateChanged(c)))

WindowSpec == WindowInit /\ [][WindowNext]_windowVars /\ ChatFairness /\ PlayerFairness
===============================================================================
