\* The three daemons, one at a time; each may end.
SPECIFICATION FairSpec
CONSTANTS
    Programs <- MCPrograms
    Threads = {"serveloop_RC", "serveloop_RF", "client_thread", "clientAppThread", "server_thread", "loop_radioSM"}
    Loops = {"server_RC", "server_RF", "radioSM", "Transp", "configServer", "clientApp", "server"}
    Flagged = {"server_RC", "server_RF", "radioSM", "Transp", "configServer"}
    Prompt = {"server_RC", "server_RF", "radioSM"}
    Returning = {"Transp", "configServer", "clientApp"}
    Throwing = {"Transp", "clientApp"}
    Exiting = {"configServer"}
    Logged = {"Transp", "configServer"}
INVARIANTS
    TypeOK
    OneMoreAtMost
    NeverDestroyed
PROPERTIES
    StopIsHeard
    JoinsReturn
CHECK_DEADLOCK FALSE
