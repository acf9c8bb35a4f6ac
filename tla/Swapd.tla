--------------------------------- MODULE Swapd ---------------------------------
(***************************************************************************)
(* Start and stop of swapd (cmd/swapd, daemon) and of a bootnode           *)
(* (cmd/bootnode, bootnode): the command line, the monero-wallet-rpc child *)
(* and its node, the Ethereum key and endpoint, the contract, then the     *)
(* database, the p2p host, the two instances and the RPC server, each of   *)
(* which may fail, with the deferred calls that undo them; signals, the    *)
(* shutdown RPC and kills at any time.                                     *)
(*                                                                         *)
(* proc is the process, defers its deferred calls, err the errors that are *)
(* joined in the returned one.  child holds the monero-wallet-rpc of the   *)
(* process and one that a killed process left running.  file is the data   *)
(* directory, and what is fixed for the machine: whether swapd finds       *)
(* offers in it, and whether the platform has Pdeathsig.                   *)
(***************************************************************************)
EXTENDS Integers, Sequences

CONSTANTS Programs, MaxStarts, MaxFaults

VARIABLES proc, defers, err, child, dbOpen, host, server, file, faults, panics

vars == <<proc, defers, err, child, dbOpen, host, server, file, faults, panics>>

Envs == {"mainnet", "stagenet", "dev"}
Nodes == [net : {"mainnet", "stagenet", "fakechain"}, offline : BOOLEAN, sync : BOOLEAN]
NoNode == [net |-> "none", offline |-> TRUE, sync |-> FALSE]
Flags == [program : Programs, env : Envs, deploy : BOOLEAN, addr : BOOLEAN, external : BOOLEAN]
Steps == {"getEnvConfig", "createMoneroClient", "findWorkingNode", "createWalletRPCService", "openWallet",
          "createEthClient", "readKey", "writeKey", "NewEthClient", "validateOrDeployContracts", "NewDatabase", "NewManager", "NewHost", "NewBackend",
          "NewTaker", "NewMaker", "Start", "NewServer", "Serve", "serving", "return", "exited"}

TypeOK ==
    /\ proc.pc \in Steps /\ proc.flags \in Flags /\ proc.contract \in {"zero", "set"} /\ proc.key \in BOOLEAN
    /\ proc.node \in Nodes \cup {NoNode} /\ proc.chain \in Envs \cup {"none"} /\ proc.cancelled \in BOOLEAN
    /\ proc.served \in BOOLEAN /\ proc.exit \in {"running", "ok", "error", "killed"} /\ proc.starts \in 0 .. MaxStarts
    /\ defers \in Seq({"wallet", "db", "host"}) /\ err \subseteq {"canceled", "failed", "host", "db"}
    /\ child \subseteq {"own", "orphan"} /\ dbOpen \in BOOLEAN /\ server \in {"none", "listening", "serving", "cancelled", "closed"}
    /\ host \in [state : {"none", "made", "started", "stopped"}, handlers : BOOLEAN, advertise : BOOLEAN]
    /\ file \in [key : {"none", "empty", "written"}, offers : BOOLEAN, pdeathsig : BOOLEAN]
    /\ faults \in 0 .. MaxFaults /\ panics \in BOOLEAN

NoHost == [state |-> "none", handlers |-> FALSE, advertise |-> FALSE]

Init ==
    /\ \E f \in Flags : proc = [pc |-> "exited", flags |-> f, contract |-> "zero", key |-> FALSE, node |-> NoNode,
                                chain |-> "none", cancelled |-> FALSE, served |-> FALSE, exit |-> "ok", starts |-> 0]
    /\ defers = <<>> /\ err = {} /\ child = {} /\ dbOpen = FALSE /\ host = NoHost /\ server = "none"
    /\ file \in [key : {"none"}, offers : BOOLEAN, pdeathsig : BOOLEAN]
    /\ faults = MaxFaults /\ panics = FALSE

At(pc) == proc.pc = pc
Goto(pc) == proc' = [proc EXCEPT !.pc = pc]
Bootnode == proc.flags.program = "bootnode"

\* An early return with an error; the deferred calls follow.
ReturnError(e) == Goto("return") /\ err' = err \cup {e}
Fault == faults > 0 /\ faults' = faults - 1
Panic == panics' = TRUE /\ Goto("return") /\ UNCHANGED err

-----------------------------------------------------------------------------
(* runDaemon of cmd/swapd *)

\* main, with any command line.
main ==
    /\ At("exited") /\ proc.starts < MaxStarts
    /\ \E f \in Flags :
          proc' = [pc |-> IF f.program = "bootnode" THEN "NewHost" ELSE "getEnvConfig", flags |-> f,
                   contract |-> "zero", key |-> FALSE, node |-> NoNode, chain |-> "none",
                   cancelled |-> FALSE, served |-> FALSE, exit |-> "running", starts |-> proc.starts + 1]
    /\ err' = {} /\ defers' = <<>> /\ host' = NoHost /\ server' = "none"
    /\ UNCHANGED <<child, dbOpen, file, faults, panics>>

\* The default of the environment is a contract that is deployed there, if there is one.
ConfigDefaultsForEnv(env) == IF env = "dev" THEN "zero" ELSE "set"

SwapCreatorAddr(f) == IF f.deploy THEN "zero" ELSE IF f.addr THEN "set" ELSE ConfigDefaultsForEnv(f.env)

\* --deploy excludes --contract-address, and is needed where there is no default; other flags
\* may be wrong, too.
getEnvConfig ==
    /\ At("getEnvConfig")
    /\ LET f == proc.flags IN
       \/ ReturnError("failed")
       \/ /\ ~(f.deploy /\ f.addr) /\ (f.deploy \/ SwapCreatorAddr(f) # "zero")
          /\ proc' = [proc EXCEPT !.pc = "createMoneroClient", !.contract = SwapCreatorAddr(f)] /\ UNCHANGED err
    /\ UNCHANGED <<defers, child, dbOpen, host, server, file, faults, panics>>

\* The flags of the Monero wallet.
createMoneroClient ==
    /\ At("createMoneroClient")
    /\ ReturnError("failed") \/ (Goto("findWorkingNode") /\ UNCHANGED err)
    /\ UNCHANGED <<defers, child, dbOpen, host, server, file, faults, panics>>

validateMonerodNode(env, n) ==
    /\ n.net = IF env = "dev" THEN "fakechain" ELSE env
    /\ env # "dev" => ~n.offline
    /\ n.sync

\* The first of the nodes that is of the environment and up to date; here, any such node.
findWorkingNode ==
    /\ At("findWorkingNode")
    /\ \/ ReturnError("failed")
       \/ \E n \in Nodes :
             /\ validateMonerodNode(proc.flags.env, n)
             /\ proc' = [proc EXCEPT !.pc = "createWalletRPCService", !.node = n] /\ UNCHANGED err
    /\ UNCHANGED <<defers, child, dbOpen, host, server, file, faults, panics>>

\* launchMoneroWalletRPCChild reaps a child that exits before it serves.
createWalletRPCService ==
    /\ At("createWalletRPCService")
    /\ \/ Fault /\ ReturnError("failed") /\ UNCHANGED child
       \/ child' = child \cup {"own"} /\ Goto("openWallet") /\ UNCHANGED <<err, faults>>
    /\ UNCHANGED <<defers, dbOpen, host, server, file, panics>>

\* The RPC fails, also because the child of a killed process has the wallet open.
OpenFails == Fault \/ ("orphan" \in child /\ UNCHANGED faults)

\* Variation: an error leaves the child running.
openWalletLeavesChild ==
    /\ At("openWallet")
    /\ \/ OpenFails /\ ReturnError("failed") /\ UNCHANGED <<defers, child>>
       \/ defers' = Append(defers, "wallet") /\ Goto("createEthClient") /\ UNCHANGED <<err, faults, child>>
    /\ UNCHANGED <<file, dbOpen, host, server, panics>>

\* The wallet is opened, or created if there is no file; on an error Close ends the child.
openWallet ==
    /\ At("openWallet")
    /\ \/ OpenFails /\ child' = child \ {"own"} /\ ReturnError("failed") /\ UNCHANGED defers
       \/ defers' = Append(defers, "wallet") /\ Goto("createEthClient") /\ UNCHANGED <<err, faults, child>>
    /\ UNCHANGED <<file, dbOpen, host, server, panics>>

\* The flags of the Ethereum client; with an external signer there is no key.
createEthClient ==
    /\ At("createEthClient")
    /\ \/ ReturnError("failed")
       \/ Goto(IF proc.flags.external THEN "NewEthClient" ELSE "readKey") /\ UNCHANGED err
    /\ UNCHANGED <<defers, child, dbOpen, host, server, file, faults, panics>>

\* GetEthereumPrivateKey: the file is created, then written, then read back.
readKey ==
    /\ At("readKey")
    /\ \/ file.key = "none" /\ Goto("writeKey") /\ file' = [file EXCEPT !.key = "empty"] /\ UNCHANGED err
       \/ file.key = "empty" /\ ReturnError("failed") /\ UNCHANGED file
       \/ /\ file.key = "written"
          /\ proc' = [proc EXCEPT !.pc = "NewEthClient", !.key = TRUE] /\ UNCHANGED <<file, err>>
    /\ UNCHANGED <<defers, child, dbOpen, host, server, faults, panics>>

createAndWriteEthKeyFile ==
    /\ At("writeKey")
    /\ \/ Fault /\ ReturnError("failed") /\ UNCHANGED file
       \/ Goto("readKey") /\ file' = [file EXCEPT !.key = "written"] /\ UNCHANGED <<err, faults>>
    /\ UNCHANGED <<defers, child, dbOpen, host, server, panics>>

validateChainID(env, chain) == chain = env

\* The endpoint may be of any chain; a cancelled context ends the call.
NewEthClient ==
    /\ At("NewEthClient")
    /\ \/ ReturnError("failed")
       \/ \E c \in Envs :
             /\ ~proc.cancelled /\ validateChainID(proc.flags.env, c)
             /\ proc' = [proc EXCEPT !.pc = "validateOrDeployContracts", !.chain = c] /\ UNCHANGED err
    /\ UNCHANGED <<defers, child, dbOpen, host, server, file, faults, panics>>

\* Deploying needs a key; a given contract must have the right code.
getOrDeploySwapCreator == proc.contract = "zero" => proc.key

validateOrDeployContracts ==
    /\ At("validateOrDeployContracts")
    /\ \/ proc.flags.deploy /\ proc.contract # "zero" /\ Panic /\ UNCHANGED faults
       \/ /\ ~(proc.flags.deploy /\ proc.contract # "zero") /\ UNCHANGED panics
          /\ \/ Fault /\ ReturnError("failed")
             \/ ~getOrDeploySwapCreator /\ ReturnError("failed") /\ UNCHANGED faults
             \/ /\ getOrDeploySwapCreator /\ proc' = [proc EXCEPT !.pc = "NewDatabase", !.contract = "set"]
                /\ UNCHANGED <<err, faults>>
    /\ UNCHANGED <<defers, child, dbOpen, host, server, file>>

-----------------------------------------------------------------------------
(* RunSwapDaemon and RunBootnode *)

\* RunSwapDaemon begins with the database.
NewDatabase ==
    /\ At("NewDatabase")
    /\ \/ proc.contract = "zero" /\ Panic /\ UNCHANGED <<faults, dbOpen, defers>>
       \/ proc.contract # "zero" /\ Fault /\ ReturnError("failed") /\ UNCHANGED <<dbOpen, defers, panics>>
       \/ /\ proc.contract # "zero" /\ dbOpen' = TRUE /\ defers' = Append(defers, "db") /\ Goto("NewManager")
          /\ UNCHANGED <<err, faults, panics>>
    /\ UNCHANGED <<child, host, server, file>>

\* A constructor that may fail.
Construct(pc, next) ==
    /\ At(pc)
    /\ \/ Fault /\ ReturnError("failed")
       \/ Goto(next) /\ UNCHANGED <<err, faults>>
    /\ UNCHANGED <<defers, child, dbOpen, server, file, panics>>

NewManager == Construct("NewManager", "NewHost") /\ UNCHANGED host
NewBackend == Construct("NewBackend", "NewTaker") /\ UNCHANGED host
NewTaker == Construct("NewTaker", "NewMaker") /\ UNCHANGED host

\* A maker with offers starts a goroutine that advertises them, and that waits for the host.
NewMaker ==
    /\ Construct("NewMaker", "Start")
    /\ host' = [host EXCEPT !.advertise = @ \/ file.offers]

NewHostStarted ==
    /\ At("NewHost")
    /\ \/ Fault /\ ReturnError("failed") /\ UNCHANGED <<defers, host>>
       \/ /\ host' = [host EXCEPT !.state = "started"] /\ defers' = Append(defers, "host")
          /\ Goto(IF Bootnode THEN "Start" ELSE "NewBackend") /\ UNCHANGED <<err, faults>>
    /\ UNCHANGED <<child, dbOpen, server, file, panics>>
NewHost ==
    /\ At("NewHost")
    /\ \/ Fault /\ ReturnError("failed") /\ UNCHANGED <<defers, host>>
       \/ /\ host' = [host EXCEPT !.state = "made"] /\ defers' = Append(defers, "host")
          /\ Goto(IF Bootnode THEN "Start" ELSE "NewBackend") /\ UNCHANGED <<err, faults>>
    /\ UNCHANGED <<child, dbOpen, server, file, panics>>

\* SetHandlers, which a bootnode leaves out, and Start, which begins the discovery.
StartHost ==
    /\ At("Start")
    /\ LET handlers == ~Bootnode IN
       \/ Fault /\ ReturnError("failed") /\ host' = [host EXCEPT !.handlers = handlers]
       \/ /\ host' = [state |-> "started", handlers |-> handlers, advertise |-> TRUE]
          /\ Goto("NewServer") /\ UNCHANGED <<err, faults>>
    /\ UNCHANGED <<defers, child, dbOpen, server, file, panics>>

\* The discovery asks the maker for its offers.
advertisedNamespaces ==
    /\ host.state = "started" /\ host.advertise /\ host' = [host EXCEPT !.advertise = FALSE]
    /\ panics' = (panics \/ (~Bootnode /\ ~host.handlers))
    /\ UNCHANGED <<proc, defers, err, child, dbOpen, server, file, faults>>

NewServer ==
    /\ At("NewServer")
    /\ \/ Fault /\ ReturnError("failed") /\ UNCHANGED server
       \/ server' = "listening" /\ Goto("Serve") /\ UNCHANGED <<err, faults>>
    /\ UNCHANGED <<defers, child, dbOpen, host, file, panics>>

\* Server.Start serves until its context is cancelled or the listener fails.
Serve ==
    /\ At("Serve")
    /\ IF proc.cancelled THEN ReturnError("canceled") /\ UNCHANGED server
       ELSE proc' = [proc EXCEPT !.pc = "serving", !.served = TRUE] /\ server' = "serving" /\ UNCHANGED err
    /\ UNCHANGED <<defers, child, dbOpen, host, file, faults, panics>>

ServeEnds ==
    /\ At("serving") /\ server' = "closed"
    /\ \/ (proc.cancelled \/ server = "cancelled") /\ ReturnError("canceled") /\ UNCHANGED faults
       \/ Fault /\ ReturnError("failed")
    /\ UNCHANGED <<defers, child, dbOpen, host, file, panics>>

-----------------------------------------------------------------------------
(* The deferred calls, last first *)

Popped == SubSeq(defers, 1, Len(defers) - 1)
Deferred(d) == At("return") /\ defers # <<>> /\ defers[Len(defers)] = d /\ defers' = Popped

\* The error is joined to the returned one, but in RunBootnode the result has no name and is
\* not changed any more.
StopHost ==
    /\ Deferred("host") /\ host' = [host EXCEPT !.state = "stopped"]
    /\ \/ Fault /\ err' = IF Bootnode THEN err ELSE err \cup {"host"}
       \/ UNCHANGED <<err, faults>>
    /\ UNCHANGED <<proc, child, dbOpen, server, file, panics>>

CloseDatabase ==
    /\ Deferred("db") /\ dbOpen' = FALSE
    /\ \/ Fault /\ err' = err \cup {"db"}
       \/ UNCHANGED <<err, faults>>
    /\ UNCHANGED <<proc, child, host, server, file, panics>>

\* Close asks the child to stop, or kills it, and waits for it; the files stay.
CloseWallet ==
    /\ Deferred("wallet") /\ child' = child \ {"own"}
    /\ UNCHANGED <<proc, err, dbOpen, host, server, file, faults, panics>>

ExitOk == err = {} \/ (~Bootnode /\ "canceled" \in err)

\* A cancelled context is no failure for runDaemon, whatever else went wrong, but is one for
\* runBootnode.
Exit ==
    /\ At("return") /\ defers = <<>>
    /\ proc' = [proc EXCEPT !.pc = "exited", !.exit = IF ExitOk /\ ~panics THEN "ok" ELSE "error"]
    /\ host' = NoHost /\ server' = "none"
    /\ UNCHANGED <<defers, err, child, dbOpen, file, faults, panics>>

-----------------------------------------------------------------------------
(* What comes from outside *)

\* SignalHandler cancels the context of main.
SignalHandler ==
    /\ ~At("exited") /\ ~proc.cancelled /\ proc' = [proc EXCEPT !.cancelled = TRUE]
    /\ UNCHANGED <<defers, err, child, dbOpen, host, server, file, faults, panics>>

\* daemon_shutdown cancels the context of the server only.
Shutdown ==
    /\ server = "serving" /\ server' = "cancelled"
    /\ UNCHANGED <<proc, defers, err, child, dbOpen, host, file, faults, panics>>

\* A crash, or a second signal once the handler is gone.  Where the platform has Pdeathsig the child
\* gets a signal; elsewhere (not linux or freebsd) it goes on without its parent.
Killed ==
    /\ ~At("exited") /\ proc' = [proc EXCEPT !.pc = "exited", !.exit = "killed"]
    /\ child' = IF file.pdeathsig \/ child = {} THEN {} ELSE {"orphan"}
    /\ defers' = <<>> /\ dbOpen' = FALSE /\ host' = NoHost /\ server' = "none"
    /\ UNCHANGED <<err, file, faults, panics>>

Step ==
    \/ getEnvConfig \/ createMoneroClient \/ findWorkingNode \/ createWalletRPCService \/ openWallet
    \/ createEthClient \/ readKey \/ createAndWriteEthKeyFile \/ NewEthClient \/ validateOrDeployContracts \/ NewDatabase \/ NewManager
    \/ NewHost \/ NewBackend \/ NewTaker \/ NewMaker \/ StartHost \/ NewServer \/ Serve \/ ServeEnds
    \/ StopHost \/ CloseDatabase \/ CloseWallet \/ Exit

Next == main \/ Step \/ advertisedNamespaces \/ SignalHandler \/ Shutdown \/ Killed

-----------------------------------------------------------------------------
(* Properties *)

\* No command line reaches a panic of start-up (the contract's address that is not zeroed, or
\* is missing), and nobody asks a maker that the host does not have.
NoStartPanic == ~panics

\* Peers and RPC clients are served only while the database, the wallet and the handlers are
\* there, and on the networks of the environment (Monero node and Ethereum chain).
ServedOnlyWhenWhole ==
    (host.state = "started" \/ server = "serving") /\ ~Bootnode
        => /\ dbOpen /\ "own" \in child /\ host.handlers
           /\ proc.chain = proc.flags.env
           /\ proc.node.net = IF proc.flags.env = "dev" THEN "fakechain" ELSE proc.flags.env

\* When the process is over, neither its child nor the database's lock is left, on whatever error
\* it returned; only where the platform has no Pdeathsig a killed process leaves its child.
NothingLeft == At("exited") => "own" \notin child /\ ~dbOpen /\ ("orphan" \in child => ~file.pdeathsig)

\* swapd reports no error when it was serving and was told to stop, unless something failed.
CleanStop == proc.exit = "error" /\ proc.served /\ ~Bootnode => faults < MaxFaults

ToldToStop == ~At("exited") /\ (proc.cancelled \/ server = "cancelled")
Over == At("exited")
=============================================================================
