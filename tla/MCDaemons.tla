------------------------------- MODULE MCDaemons -------------------------------
(***************************************************************************)
(* The callbacks of the three daemons, as scripts, and what their loops    *)
(* may do: server_RC, server_RF and radioSM run WorkLoop of the shared     *)
(* memory, Transp and configServer the two sides of the sockets, clientApp *)
(* and server those of the pipes.                                          *)
(***************************************************************************)
EXTENDS Daemon

OnUpdate == <<Log>>

RadioStart == <<Log, Call("clientApp"), Call("Transp"),
                Spawn("clientAppThread", "clientApp"),
                Spawn("serveloop_RC", "server_RC"), Spawn("serveloop_RF", "server_RF")>>

\* Mutant: the loop is joined before it is told to stop.
RadioStopJoinsFirst == <<Log, Stop("server_RF"), Join("serveloop_RC"), Stop("server_RC"),
                         Join("serveloop_RF"), Stop("Transp"), Join("client_thread"),
                         Join("clientAppThread")>>

\* Mutant: the thread that was never made is not joined.
RadioStopMended == <<Log, Stop("server_RC"), Stop("server_RF"),
                     Join("serveloop_RC"), Join("serveloop_RF"),
                     Stop("Transp"), Join("clientAppThread")>>

RadioStop == <<Log, Stop("server_RC"), Stop("server_RF"),
               Join("serveloop_RC"), Join("serveloop_RF"),
               Stop("Transp"), Join("client_thread"), Join("clientAppThread")>>

FaultStart == <<Spawn("server_thread", "server"), Log, Spawn("client_thread", "Transp"),
                Call("Transp"), Spawn("server_thread", "server"),
                Spawn("loop_radioSM", "radioSM")>>

FaultStop == <<Stop("radioSM"), Stop("Transp"), Join("loop_radioSM"), JoinIf("server_thread"),
               Join("loop_radioSM"), Join("client_thread"), Log>>

ConfigurationStart == <<Log, Spawn("server_thread", "configServer"), Call("configServer"),
                        Call("clientApp")>>

ConfigurationStop == <<Stop("radioSM"), Join("loop_radioSM"), Stop("configServer"),
                       Join("server_thread"), Join("clientAppThread"), Log>>

\* A daemon that makes no thread, to see what the library does of itself.
Plain == [constructor |-> <<>>, on_start |-> <<Log>>, on_update |-> OnUpdate, on_stop |-> <<Log>>]

Radio == [constructor |-> <<>>, on_start |-> RadioStart,
          on_update |-> OnUpdate, on_stop |-> RadioStop]
Fault == [constructor |-> <<>>, on_start |-> FaultStart,
          on_update |-> OnUpdate, on_stop |-> FaultStop]
Configuration == [constructor |-> <<Spawn("clientAppThread", "clientApp")>>,
                  on_start |-> ConfigurationStart,
                  on_update |-> OnUpdate, on_stop |-> ConfigurationStop]

MCPrograms == {Plain, Radio, Fault, Configuration}

(* No main() of the three daemons returns: on every way through its          *)
(* callbacks it stays in a loop, or misuses a std::thread and is terminated. *)
(* So no destructor of a member runs, which would unlink objects and pipes.  *)
(* A daemon that makes no thread does return.                                *)
NeverDestroyed == fate = "clean" => program = Plain
===============================================================================
