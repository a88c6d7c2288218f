---------------------------- MODULE RemoteDeploy ----------------------------
(* Programs on the test server (SSHDeployer.cpp): deployPrebuilt copies a    *)
(* prebuilt directory there, and runDpdkInteractive starts what it copied;   *)
(* preparePrebuilt, for the developer, copies the source, builds it on the   *)
(* server and fetches the result back into the prebuilt directory.           *)
(*                                                                           *)
(* Both use the same remote directory, and some failures are ignored: what   *)
(* is removed or made executable there nobody checks.                        *)
EXTENDS TestbedFaults

CONSTANT MaxSource      \* bound on the versions of the source

ASSUME DeployAssumption == MaxSource \in Nat \ {0}

VARIABLES
    source,         \* the version of the source
    prebuilt,       \* the version the prebuilt program was built from
    binary,         \* the version of the program in the remote directory,
                    \*   0 if there is none
    tree,           \* the version of the source there, 0 if there is none
    deployCall      \* the next step of the call, or its result

deployVars == <<source, prebuilt, binary, tree, deployCall>>
remote == <<binary, tree>>

Versions == 0..MaxSource
DeployReturned == {"failed", "ok", "prepared"}
DeployCalls == DeployReturned \cup
               {"connect", "remove", "copy", "run",
                "srcConnect", "srcRemove", "srcCopy", "detect",
                "cmake", "clean", "make", "fetch"}

DeployTypeOK ==
    /\ source \in Versions /\ prebuilt \in Versions
    /\ binary \in Versions /\ tree \in Versions
    /\ deployCall \in DeployCalls

DeployInit ==
    /\ source = 1 /\ prebuilt = 1
    /\ binary = 0 /\ tree = 0
    /\ deployCall = "failed"

Continue(call) == deployCall' = call /\ UNCHANGED source

(* A remote command that fails the call if it fails itself. *)
Remote(from, to) ==
    /\ deployCall = from
    /\ May(Continue(to), Continue("failed"))
    /\ UNCHANGED <<prebuilt, remote>>

DeployConnect == \/ Remote("connect", "remove")
                 \/ Remote("srcConnect", "srcRemove")

(* Mutant: a failed scp is ignored like a failed rm. *)
CopyDirectoryUnchecked ==
    /\ \/ /\ deployCall = "copy" /\ UNCHANGED tree /\ Continue("run")
          /\ May(binary' = prebuilt, binary' \in {binary, prebuilt})
       \/ /\ deployCall = "srcCopy" /\ UNCHANGED binary /\ Continue("detect")
          /\ May(tree' = source, tree' \in {tree, source})
    /\ UNCHANGED prebuilt

(* copyDirectory.  Whether rm -rf succeeds is not looked at; an scp -r that  *)
(* fails may have replaced the program, or the source, before it did.        *)
RemoveDirectory ==
    /\ \/ deployCall = "remove" /\ Continue("copy")
       \/ deployCall = "srcRemove" /\ Continue("srcCopy")
    /\ May(binary' = 0 /\ tree' = 0, UNCHANGED remote)
    /\ UNCHANGED prebuilt

CopyDirectory ==
    /\ \/ /\ deployCall = "copy" /\ UNCHANGED tree
          /\ \/ NoFault /\ binary' = prebuilt /\ Continue("run")
             \/ Fault /\ binary' \in {binary, prebuilt} /\ Continue("failed")
       \/ /\ deployCall = "srcCopy" /\ UNCHANGED binary
          /\ \/ NoFault /\ tree' = source /\ Continue("detect")
             \/ Fault /\ tree' \in {tree, source} /\ Continue("failed")
    /\ UNCHANGED prebuilt

(* deployPrebuilt, and what is copied is run: by itself, or interactively by *)
(* runDpdkInteractive.                                                       *)
DeployPrebuilt ==
    /\ deployCall \in DeployReturned
    /\ Continue("connect") /\ NoFault
    /\ UNCHANGED <<prebuilt, remote>>

RunProgram ==
    /\ deployCall = "run" /\ binary # 0
    /\ May(Continue("ok"), Continue("failed"))
    /\ UNCHANGED <<prebuilt, remote>>

(* preparePrebuilt and deployAndBuild. *)
PreparePrebuilt ==
    /\ deployCall \in DeployReturned
    /\ Continue("srcConnect") /\ NoFault
    /\ UNCHANGED <<prebuilt, remote>>

DetectBuildSystem ==
    Remote("detect", "cmake") \/ Remote("detect", "clean")

BuildWithCMake == Remote("cmake", "make")

(* 'make clean || true' *)
CleanFirst ==
    /\ deployCall = "clean" /\ Continue("make")
    /\ May(binary' = 0, UNCHANGED binary)
    /\ UNCHANGED <<prebuilt, tree>>

(* The source has just been copied and is newer than anything built before. *)
BuildProgram ==
    /\ deployCall = "make"
    /\ \/ NoFault /\ binary' = tree /\ Continue("fetch")
       \/ Fault /\ binary' \in {0, binary} /\ Continue("failed")
    /\ UNCHANGED <<prebuilt, tree>>

FetchBinary ==
    /\ deployCall = "fetch"
    /\ \/ NoFault /\ prebuilt' = binary /\ Continue("prepared")
       \/ Fault /\ prebuilt' = prebuilt /\ Continue("failed")
    /\ UNCHANGED remote

(* The developer goes on. *)
SourceChanges ==
    /\ deployCall \in DeployReturned /\ source < MaxSource
    /\ source' = source + 1 /\ deployCall' = "failed" /\ NoFault
    /\ UNCHANGED <<prebuilt, remote>>

DeployAborted == deployCall' = "failed"
                 /\ UNCHANGED <<source, prebuilt, remote>>

DeployStep ==
    \/ DeployConnect \/ RemoveDirectory \/ CopyDirectory \/ RunProgram
    \/ DetectBuildSystem \/ BuildWithCMake \/ CleanFirst \/ BuildProgram
    \/ FetchBinary

DeployNext ==
    \/ DeployPrebuilt \/ PreparePrebuilt \/ SourceChanges
    \/ DeployStep \/ DeployAborted

DeploySpec == DeployInit /\ [][DeployNext]_deployVars

------------------------------------------------------------------------------
(* Nothing stale is used, whatever earlier calls left behind and whichever   *)
(* ignored command failed: the program about to be run is the prebuilt one,  *)
(* and after a successful preparePrebuilt that one was built from the        *)
(* source as it is.  SSHDeployer.cpp:224, 939, 1168.                         *)
NothingStale ==
    /\ deployCall = "run" => binary = prebuilt
    /\ deployCall = "prepared" => prebuilt = source
=============================================================================
