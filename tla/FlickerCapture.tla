--------------------------- MODULE FlickerCapture ---------------------------
(***************************************************************************)
(* One capture channel of the flicker detector (Flicker_Detection):        *)
(* DriverManager with its callback, worker and display threads, the        *)
(* velocity thread that starts the capture, and the commands and the       *)
(* shutdown of main.cpp that stop and restart it.                          *)
(*                                                                         *)
(* The source has a copy of the code for each of the four channels; each   *)
(* behaviour here is one of them.  A frame is the number of its run: a new *)
(* run begins when the flow of frames is turned off.  What an image looks  *)
(* like, whether two of them differ and what is written over them is left  *)
(* to chance or out.  Calls of the vendor's driver may fail.  One command, *)
(* or one signal, is executed at a time.                                   *)
(***************************************************************************)
EXTENDS Naturals, Sequences

CONSTANTS
  Instances,  \* channel; bounds: commands typed, driver calls that fail, and frames in the
              \* queue up to which another one comes (0: the card delivers none)
  MaxShown    \* bound: items counted in the queue of the display

ASSUME CaptureAssumption ==
  /\ Instances \subseteq [chan : {1, 2} \X {1, 2}, commands : Nat, failures : Nat, frames : Nat]
  /\ MaxShown \in Nat \ {0}

VARIABLES
  inst,      \* the channel and the bounds of this behaviour
  todo,      \* what the velocity thread and the controlling thread still have to do
  driver,    \* First_Driver or Second_Driver # 0
  flow,      \* the card delivers frames
  mem,       \* gpMem: the channel's buffer
  sibling,   \* the buffer of the card's other channel
  video,     \* the video writer is open
  run,       \* DriverManager::isRunning
  running,   \* isRunning_cardX_channelY
  queue,     \* the queue of copied frames
  cb,        \* the callback: where it is, and its frame
  wk,        \* the worker: where it is, and its frame
  dp,        \* the display thread
  shown,     \* items in the display queue
  ssim,      \* first frame flag, previous image, counter started, ten seconds over
  epoch,     \* the current run
  commands,  \* commands so far
  failures,  \* driver calls that failed
  halted,    \* g_systems_stopped
  end,       \* how the process ended
  history    \* masked failures, lost wake-up, overlap of start and stop, late runs

vars == <<inst, todo, driver, flow, mem, sibling, video, run, running, queue, cb, wk, dp,
          shown, ssim, epoch, commands, failures, halted, end, history>>
cardVars == <<driver, flow, mem, sibling, video, epoch>>
pipeVars == <<queue, cb>>
workVars == <<wk, ssim>>
showVars == <<dp, shown>>
processVars == <<run, commands, halted, end>>

chan == inst.chan
card == chan[1]
Threads == {"velocity", "control"}

-----------------------------------------------------------------------------
(* What the controlling threads do, stage by stage.  A stage that fails    *)
(* throws, and the thread goes on after the next "catch".                  *)

StartVideoCapture == <<"writers", "ifFlow", "flowOn", "sleep", "catch">>
InitializeDriver ==
  <<"open", "flowOff", "sleep", "configure", "alloc", "configure", "start", "catch">>
StopThread == <<"clear", "joinWorker", "stopDisplay", "joinDisplay">>
StopFlickerDetection ==
  <<"halt", "ifFlow", "flowOff", "sleep", "ifThreads">> \o StopThread
  \o <<"release", "close", "catch">>
\* Mutant: the buffer is freed before the flow is turned off.
StopCardFreeFirst ==
  StopThread \o <<"release", "free", "flowOff", "sleep", "flowOn", "sleep">>
StopCard == StopThread \o <<"flowOff", "sleep", "release", "free", "flowOn", "sleep">>
RestartCard == <<"flowOff", "sleep", "alloc", "writers", "start", "flowOn", "sleep">>
StopSibling == <<"flowOff", "sleep", "releaseCard", "freeSibling", "flowOn", "sleep">>
RestartSibling == <<"flowOff", "sleep", "allocSibling", "writers", "flowOn", "sleep">>
\* CARD_BOTH: no thread is stopped or started, no buffer freed or allocated.
StopBoth == <<"releaseCard", "ifFlow", "flowOff", "sleep">>
RestartBoth == <<"ifFlow", "flowOn", "sleep">>
\* The checks: directories and CUDA, the driver, the statistics at the end.
StartFlickerDetection ==
  <<"check">> \o InitializeDriver \o <<"check", "sleep">> \o StartVideoCapture
  \o <<"loop", "check">>

At(t, stage) == todo[t] # <<>> /\ Head(todo[t]) = stage
\* A "catch" is passed when it is reached.
After(stages, n) ==
  LET rest == SubSeq(stages, n + 1, Len(stages))
  IN IF rest # <<>> /\ Head(rest) = "catch" THEN Tail(rest) ELSE rest
Skip(t, n) == todo' = [todo EXCEPT ![t] = After(@, n)]
Go(t) == Skip(t, 1)
AfterCatch(stages) ==
  LET catches == {k \in DOMAIN stages : stages[k] = "catch"}
  IN IF catches = {} THEN <<>>
     ELSE LET first == CHOOSE k \in catches : \A j \in catches : k <= j
          IN SubSeq(stages, first + 1, Len(stages))
Throw(t) == todo' = [todo EXCEPT ![t] = AfterCatch(@)]
Fails == failures < inst.failures /\ failures' = failures + 1

\* The velocity thread is still before its loop.
StartsUp == \E k \in DOMAIN todo["velocity"] : k > 1 /\ todo["velocity"][k] = "loop"

NoFrame == [at |-> "idle", frame |-> 0]

Init ==
  /\ inst \in Instances
  /\ todo = [t \in Threads |-> IF t = "velocity" THEN StartFlickerDetection ELSE <<>>]
  /\ driver = FALSE /\ flow = FALSE /\ mem = FALSE /\ sibling = FALSE /\ video = FALSE
  /\ run = TRUE /\ running = FALSE
  /\ queue = <<>>
  /\ cb = NoFrame
  /\ wk = [at |-> "none", frame |-> 0]
  /\ dp = "none" /\ shown = 0
  /\ ssim = [first |-> TRUE, prev |-> 0, started |-> FALSE, warm |-> FALSE]
  /\ epoch = 0 /\ commands = 0 /\ failures = 0 /\ halted = FALSE /\ end = "none"
  /\ history = [masked |-> FALSE, lost |-> FALSE, overlap |-> FALSE, late |-> {}]

-----------------------------------------------------------------------------
(* The callback of the driver.  The first card's copies the frame outside  *)
(* the mutex of the queue, the second card's inside it.                    *)

\* Frames that have been captured and not yet dealt with.
OnTheWay ==
  {queue[k] : k \in DOMAIN queue}
  \cup (IF cb.at = "idle" THEN {} ELSE {cb.frame})
  \cup (IF wk.at = "handle" THEN {wk.frame} ELSE {})

\* The worker tests, or is about to sleep, under the mutex of the queue.
WorkerLocks == wk.at = "about"
CallbackLocks == card = 2 /\ cb.at # "idle"

CallbackEnter ==
  /\ driver /\ flow /\ run /\ mem /\ cb.at = "idle" /\ Len(queue) < inst.frames
  /\ card = 2 => ~WorkerLocks
  /\ cb' = [at |-> "dma", frame |-> epoch]
  /\ UNCHANGED <<inst, todo, cardVars, processVars, running, queue, workVars, showVars,
                 failures, history>>

UserCallBack_Card1 == card = 1 /\ CallbackEnter
UserCallBack_Card2 == card = 2 /\ CallbackEnter

\* Transfer and copy.  The first card's callback drops a frame whose transfer failed, the
\* second's does not.
CallbackDma ==
  /\ cb.at = "dma"
  /\ \/ cb' = [cb EXCEPT !.at = "push"] /\ UNCHANGED failures
     \/ Fails /\ cb' = IF card = 1 THEN NoFrame ELSE [cb EXCEPT !.at = "push"]
  /\ UNCHANGED <<inst, todo, cardVars, processVars, running, queue, workVars, showVars, history>>

CallbackPush ==
  /\ cb.at = "push" /\ ~WorkerLocks
  /\ queue' = Append(queue, cb.frame)
  /\ cb' = NoFrame
  /\ wk' = IF wk.at = "wait" THEN [wk EXCEPT !.at = "check"] ELSE wk
  /\ UNCHANGED <<inst, todo, cardVars, processVars, running, ssim, showVars, failures, history>>

-----------------------------------------------------------------------------
(* The worker.                                                             *)

\* The new thread itself raises the flag.
WorkerRuns ==
  /\ wk.at = "created"
  /\ running' = TRUE
  /\ wk' = [wk EXCEPT !.at = "test"]
  /\ UNCHANGED <<inst, todo, cardVars, processVars, pipeVars, ssim, showVars, failures, history>>

ThreadWorkerTest ==
  /\ wk.at = "test"
  /\ wk' = [wk EXCEPT !.at = IF running /\ mem THEN "check" ELSE "ended"]
  /\ UNCHANGED <<inst, todo, cardVars, processVars, running, pipeVars, ssim, showVars,
                 failures, history>>

\* The predicate of the wait, with the mutex held.
ThreadWorkerCheck ==
  /\ wk.at = "check" /\ ~CallbackLocks
  /\ \/ /\ queue # <<>>
        /\ wk' = [at |-> "handle", frame |-> Head(queue)]
        /\ queue' = Tail(queue)
     \/ /\ queue = <<>>
        /\ wk' = [wk EXCEPT !.at = IF running THEN "about" ELSE "ended"]
        /\ UNCHANGED queue
  /\ UNCHANGED <<inst, todo, cardVars, processVars, running, cb, ssim, showVars, failures, history>>

\* It gives up the mutex and sleeps: only who notifies from now on wakes it.
ThreadWorkerSleep ==
  /\ wk.at = "about"
  /\ wk' = [wk EXCEPT !.at = "wait"]
  /\ UNCHANGED <<inst, todo, cardVars, processVars, running, pipeVars, ssim, showVars,
                 failures, history>>

ThreadWorker_Card1_CH1 == chan = <<1, 1>> /\ ThreadWorkerCheck
ThreadWorker_Card1_CH2 == chan = <<1, 2>> /\ ThreadWorkerCheck
ThreadWorker_Card2_CH1 == chan = <<2, 1>> /\ ThreadWorkerCheck
ThreadWorker_Card2_CH2 == chan = <<2, 2>> /\ ThreadWorkerCheck

\* The image after a comparison: a frame that flickers is not the next one's reference.
CalculateSSIM ==
  IF ssim.first THEN {[ssim EXCEPT !.first = FALSE, !.prev = wk.frame]}
  ELSE {ssim, [ssim EXCEPT !.prev = wk.frame]}

\* The first frame starts the clock; frames are compared when ten seconds are over.  Every
\* frame goes to the display.
Handle ==
  /\ wk.at = "handle"
  /\ ssim' \in IF ssim.warm THEN CalculateSSIM ELSE {[ssim EXCEPT !.started = TRUE]}
  /\ shown' = IF shown < MaxShown THEN shown + 1 ELSE shown
  /\ wk' = [at |-> "test", frame |-> 0]
  /\ UNCHANGED <<inst, todo, cardVars, processVars, running, pipeVars, dp, failures, history>>

HandleCard1Channel1 == chan = <<1, 1>> /\ Handle
HandleCard1Channel2 == chan = <<1, 2>> /\ Handle
HandleCard2Channel1 == chan = <<2, 1>> /\ Handle
HandleCard2Channel2 == chan = <<2, 2>> /\ Handle

\* Ten seconds after the first frame.  A backlog of frames of an earlier run takes less.
TenSeconds ==
  /\ ssim.started /\ ~ssim.warm /\ OnTheWay \subseteq {epoch}
  /\ ssim' = [ssim EXCEPT !.warm = TRUE]
  /\ UNCHANGED <<inst, todo, cardVars, processVars, running, pipeVars, wk, showVars,
                 failures, history>>

-----------------------------------------------------------------------------
(* The display thread, which also writes the video.                        *)

DisplayTest ==
  /\ dp \in {"created", "write"}
  /\ dp' = IF running THEN "pop" ELSE "ended"
  /\ UNCHANGED <<inst, todo, cardVars, processVars, running, pipeVars, workVars, shown,
                 failures, history>>

DisplayPop ==
  /\ dp = "pop" /\ shown > 0
  /\ shown' = shown - 1
  /\ dp' = "write"
  /\ UNCHANGED <<inst, todo, cardVars, processVars, running, pipeVars, workVars, failures, history>>

Display_worker_card1_ch1 == chan = <<1, 1>> /\ DisplayPop
Display_worker_card1_ch2 == chan = <<1, 2>> /\ DisplayPop
Display_worker_card2_ch1 == chan = <<2, 1>> /\ DisplayPop
Display_worker_card2_ch2 == chan = <<2, 2>> /\ DisplayPop

-----------------------------------------------------------------------------
(* The stages.  rc is one global variable, which every thread of both      *)
(* cards stores its results in: the test after a driver call may see the   *)
(* success or the failure of another one.                                  *)

OpenDriver(t) ==
  /\ At(t, "open")
  /\ \/ driver' = TRUE /\ Go(t) /\ UNCHANGED failures
     \/ driver' = FALSE /\ Fails /\ Throw(t)
  /\ UNCHANGED <<inst, flow, mem, sibling, video, epoch, processVars, running, pipeVars,
                 workVars, showVars, history>>

\* printVersionInfo, checkCardResolution, configureRouting, cardSelfTest, pciControl.
Configure(t) ==
  /\ At(t, "configure")
  /\ \/ driver /\ Go(t) /\ UNCHANGED failures
     \/ driver /\ Fails /\ Throw(t)
     \/ ~driver /\ Throw(t) /\ UNCHANGED failures
  /\ UNCHANGED <<inst, cardVars, processVars, running, pipeVars, workVars, showVars, history>>

\* History: frames that come to the comparison although they are of the run that ends.
LeftOver == IF ssim.warm THEN OnTheWay ELSE {}

\* Mutant: the reference image survives a restart.
KeepStatistics ==
  /\ UNCHANGED ssim
  /\ history' = [history EXCEPT !.late = LeftOver]
ResetStatistics ==
  /\ ssim' = [ssim EXCEPT !.first = TRUE, !.prev = 0]
  /\ history' = [history EXCEPT !.late = LeftOver]

Masks == history' = [history EXCEPT !.masked = TRUE]

ConfigureDriverOff(t) ==
  /\ At(t, "flowOff")
  /\ \/ \* done, and seen to be done
        /\ driver /\ flow' = FALSE /\ epoch' = (IF flow THEN epoch + 1 ELSE epoch)
        /\ ResetStatistics /\ Go(t) /\ UNCHANGED failures
     \/ \* done, but the failure of another call is seen
        /\ driver /\ flow' = FALSE /\ epoch' = (IF flow THEN epoch + 1 ELSE epoch)
        /\ Fails /\ Masks /\ Throw(t) /\ UNCHANGED ssim
     \/ \* failed
        /\ Throw(t) /\ UNCHANGED <<flow, epoch, ssim, history>>
        /\ IF driver THEN Fails ELSE UNCHANGED failures
     \/ \* failed, but the success of another call is seen inside, or by the caller
        /\ driver /\ Fails /\ UNCHANGED <<flow, epoch, ssim>>
        /\ Masks
        /\ \/ Go(t)
           \/ (t = "velocity" => ~StartsUp) /\ Skip(t, 2)
  /\ UNCHANGED <<inst, driver, mem, sibling, video, processVars, running, pipeVars, wk, showVars>>

ConfigureDriverOn(t) ==
  /\ At(t, "flowOn")
  /\ \/ driver /\ flow' = TRUE /\ Go(t) /\ UNCHANGED failures
     \/ Throw(t) /\ UNCHANGED flow /\ IF driver THEN Fails ELSE UNCHANGED failures
  /\ UNCHANGED <<inst, driver, mem, sibling, video, epoch, processVars, running, pipeVars,
                 workVars, showVars, history>>

\* sleep(1): a callback that began before the flow was turned off is over, and a new
\* thread has begun.
SleepOneSecond(t) ==
  /\ At(t, "sleep")
  /\ cb.at = "idle" \/ flow
  /\ wk.at # "created" /\ dp # "created"
  /\ Go(t)
  /\ UNCHANGED <<inst, cardVars, processVars, running, pipeVars, workVars, showVars, failures, history>>

\* setFlowControl and stopVideoCapture look at the handle of the driver.
IfOpen(t) ==
  /\ \/ At(t, "ifFlow") /\ (IF driver THEN Go(t) ELSE Skip(t, 3))
     \/ At(t, "ifThreads") /\ (IF driver THEN Go(t) ELSE Skip(t, 5))
  /\ UNCHANGED <<inst, cardVars, processVars, running, pipeVars, workVars, showVars, failures, history>>

AllocateMemoryBuffers(t) ==
  /\ At(t, "alloc")
  /\ \/ mem /\ Go(t) /\ UNCHANGED <<mem, sibling, failures>>
     \/ /\ ~mem /\ driver /\ mem' = TRUE /\ Go(t)
        /\ IF t = "velocity" THEN sibling' \in BOOLEAN ELSE UNCHANGED sibling
        /\ UNCHANGED failures
     \/ ~mem /\ Throw(t) /\ UNCHANGED <<mem, sibling>> /\ IF driver THEN Fails ELSE UNCHANGED failures
  /\ UNCHANGED <<inst, driver, flow, video, epoch, processVars, running, pipeVars, workVars,
                 showVars, history>>

\* Freeing a buffer that is not there fails.
DeAllocateMemoryBuffers(t) ==
  /\ At(t, "free")
  /\ \/ \* freed, or so it seems; the caller may see the failure of another call
        /\ mem' = FALSE /\ ssim' = [ssim EXCEPT !.started = FALSE, !.warm = FALSE]
        /\ UNCHANGED history
        /\ (Go(t) /\ UNCHANGED failures) \/ (Throw(t) /\ Fails)
     \/ \* failed
        /\ Throw(t) /\ UNCHANGED <<mem, ssim, history>>
        /\ IF mem THEN Fails ELSE UNCHANGED failures
     \/ \* freed, but the failure of another call is seen: the pointer is kept; or failed,
        \* and the caller sees the success of another call
        /\ Fails /\ Masks /\ UNCHANGED <<mem, ssim>>
        /\ Go(t) \/ Throw(t)
  /\ UNCHANGED <<inst, driver, flow, sibling, video, epoch, processVars, running, pipeVars, wk,
                 showVars>>

SiblingBuffers(t) ==
  /\ \/ /\ At(t, "allocSibling")
        /\ \/ sibling' = TRUE /\ Go(t) /\ UNCHANGED failures
           \/ ~sibling /\ Fails /\ Throw(t) /\ UNCHANGED sibling
     \/ /\ At(t, "freeSibling")
        /\ \/ sibling /\ sibling' = FALSE /\ Go(t) /\ UNCHANGED failures
           \/ Throw(t) /\ UNCHANGED sibling /\ IF sibling THEN Fails ELSE UNCHANGED failures
  /\ UNCHANGED <<inst, driver, flow, mem, video, epoch, processVars, running, pipeVars, workVars,
                 showVars, history>>

\* The writers of both channels of the card are opened anew.
InitializeVideoWriters(t) ==
  /\ At(t, "writers")
  /\ \/ video' = (video \/ (driver /\ ~flow /\ mem)) /\ Go(t) /\ UNCHANGED failures
     \/ driver /\ ~flow /\ (mem \/ sibling) /\ Fails /\ Throw(t) /\ video' \in BOOLEAN
  /\ UNCHANGED <<inst, driver, flow, mem, sibling, epoch, processVars, running, pipeVars, workVars,
                 showVars, history>>

VideoWritersRelease(t) ==
  /\ At(t, "release") \/ At(t, "releaseCard")
  /\ video' = FALSE /\ Go(t)
  /\ UNCHANGED <<inst, driver, flow, mem, sibling, epoch, processVars, running, pipeVars, workVars,
                 showVars, failures, history>>

\* A display thread over one that was never joined ends the process.
StartThread(t) ==
  /\ At(t, "start")
  /\ Go(t)
  /\ IF wk.at # "none" THEN UNCHANGED <<wk, dp, end>>
     ELSE /\ wk' = [wk EXCEPT !.at = "created"]
          /\ IF dp = "none" THEN dp' = "created" /\ UNCHANGED end
             ELSE end' = "terminate" /\ UNCHANGED dp
  /\ UNCHANGED <<inst, cardVars, run, running, commands, halted, pipeVars, ssim, shown,
                 failures, history>>

StartCard1Channel1Thread(t) == chan = <<1, 1>> /\ StartThread(t)
StartCard1Channel2Thread(t) == chan = <<1, 2>> /\ StartThread(t)
StartCard2Channel1Thread(t) == chan = <<2, 1>> /\ StartThread(t)
StartCard2Channel2Thread(t) == chan = <<2, 2>> /\ StartThread(t)

\* The flag and the notification, without the mutex of the queue.
StopThreadClear(t) ==
  /\ At(t, "clear")
  /\ running' = FALSE
  /\ wk' = IF wk.at = "wait" THEN [wk EXCEPT !.at = "check"] ELSE wk
  /\ history' = [history EXCEPT !.lost = @ \/ wk.at \in {"about", "created"}]
  /\ Go(t)
  /\ UNCHANGED <<inst, cardVars, processVars, pipeVars, ssim, showVars, failures>>

\* Of two threads that join the same one, the second gets an error.
JoinFails(t, stage) == (\A u \in Threads : At(u, stage)) /\ Throw(t)

StopThreadJoin(t) ==
  /\ At(t, "joinWorker")
  /\ \/ wk.at \in {"none", "ended"} /\ wk' = [at |-> "none", frame |-> 0] /\ Go(t)
     \/ wk.at # "none" /\ JoinFails(t, "joinWorker") /\ UNCHANGED wk
  /\ UNCHANGED <<inst, cardVars, processVars, running, pipeVars, ssim, showVars, failures, history>>

\* Mutant: nothing is pushed to wake the display thread.
StopDisplayThreadSilent(t) ==
  /\ At(t, "stopDisplay")
  /\ running' = FALSE
  /\ Go(t)
  /\ UNCHANGED <<inst, cardVars, processVars, pipeVars, workVars, showVars, failures, history>>
StopDisplayThread(t) ==
  /\ At(t, "stopDisplay")
  /\ running' = FALSE
  /\ shown' = IF shown < MaxShown THEN shown + 1 ELSE shown
  /\ Go(t)
  /\ UNCHANGED <<inst, cardVars, processVars, pipeVars, workVars, dp, failures, history>>

StopDisplayThreadJoin(t) ==
  /\ At(t, "joinDisplay")
  /\ \/ dp \in {"none", "ended"} /\ dp' = "none" /\ Go(t)
     \/ dp # "none" /\ JoinFails(t, "joinDisplay") /\ UNCHANGED dp
  /\ UNCHANGED <<inst, cardVars, processVars, running, pipeVars, workVars, shown, failures, history>>

CloseCard(t) ==
  /\ At(t, "close")
  /\ driver' = FALSE /\ flow' = FALSE /\ mem' = FALSE /\ sibling' = FALSE
  /\ Go(t)
  /\ UNCHANGED <<inst, video, epoch, processVars, running, pipeVars, workVars, showVars,
                 failures, history>>

Halt(t) ==
  /\ At(t, "halt") /\ run' = FALSE /\ Go(t)
  /\ UNCHANGED <<inst, cardVars, running, commands, halted, end, pipeVars, workVars, showVars,
                 failures, history>>

LeaveLoop(t) ==
  /\ At(t, "loop") /\ ~run /\ Go(t)
  /\ UNCHANGED <<inst, cardVars, processVars, running, pipeVars, workVars, showVars, failures, history>>

\* A check of startFlickerDetection: what failed is the call itself, or another one that
\* was still seen in rc.  The catch stops everything, as main does, and maybe with it.
CheckReturnCode(t) ==
  /\ At(t, "check")
  /\ \/ Go(t) /\ UNCHANGED failures
     \/ todo' = [todo EXCEPT ![t] = StopFlickerDetection] /\ Fails
  /\ UNCHANGED <<inst, cardVars, processVars, running, pipeVars, workVars, showVars, history>>

-----------------------------------------------------------------------------
(* main: commands, the signal, and the end of the process.                 *)

\* A command is typed when the start-up is over.
ProcessCommands ==
  /\ todo["control"] = <<>> /\ ~halted
  /\ At("velocity", "loop") \/ todo["velocity"] = <<>>
  /\ commands < inst.commands /\ commands' = commands + 1
  /\ \E c \in {StopCard, RestartCard, StopSibling, RestartSibling, StopBoth, RestartBoth} :
       todo' = [todo EXCEPT !["control"] = c]
  /\ UNCHANGED <<inst, cardVars, run, running, halted, end, pipeVars, workVars, showVars,
                 failures, history>>

\* "stop all", or a signal through the watcher thread.  With a signal main joins the command
\* thread too: whoever typed commands types "exit" after it.
StopAllSystemsOnce ==
  /\ todo["control"] = <<>> /\ ~halted
  /\ halted' = TRUE
  /\ todo' = [todo EXCEPT !["control"] = StopFlickerDetection]
  /\ history' = [history EXCEPT !.overlap = StartsUp]
  /\ UNCHANGED <<inst, cardVars, run, running, commands, end, pipeVars, workVars, showVars, failures>>

\* main returns; the destructor stops what is still open.
DestroyDriverManager ==
  /\ halted /\ todo = [t \in Threads |-> <<>>]
  /\ todo' = [todo EXCEPT !["control"] =
                (IF run \/ driver THEN StopFlickerDetection ELSE <<>>) \o <<"end">>]
  /\ UNCHANGED <<inst, cardVars, processVars, running, pipeVars, workVars, showVars, failures, history>>

\* The destructor of a thread that was never joined ends the process the hard way.
ExitProcess(t) ==
  /\ At(t, "end")
  /\ end' = IF wk.at = "none" /\ dp = "none" THEN "clean" ELSE "terminate"
  /\ Go(t)
  /\ UNCHANGED <<inst, cardVars, run, running, commands, halted, pipeVars, workVars, showVars,
                 failures, history>>

CallbackStep == CallbackDma \/ CallbackPush
WorkStep ==
  WorkerRuns \/ ThreadWorkerTest \/ ThreadWorkerCheck \/ ThreadWorkerSleep \/ Handle
DisplayStep == DisplayTest \/ DisplayPop
StageStep(t) ==
  \/ OpenDriver(t) \/ Configure(t) \/ ConfigureDriverOff(t) \/ ConfigureDriverOn(t)
  \/ SleepOneSecond(t) \/ IfOpen(t) \/ AllocateMemoryBuffers(t) \/ DeAllocateMemoryBuffers(t)
  \/ SiblingBuffers(t) \/ InitializeVideoWriters(t) \/ VideoWritersRelease(t)
  \/ StartCard1Channel1Thread(t) \/ StartCard1Channel2Thread(t)
  \/ StartCard2Channel1Thread(t) \/ StartCard2Channel2Thread(t)
  \/ StopThreadClear(t) \/ StopThreadJoin(t)
  \/ StopDisplayThread(t) \/ StopDisplayThreadJoin(t)
  \/ CloseCard(t) \/ Halt(t) \/ LeaveLoop(t) \/ CheckReturnCode(t) \/ ExitProcess(t)

Next ==
  /\ end = "none"
  /\ \/ UserCallBack_Card1 \/ UserCallBack_Card2 \/ CallbackStep
     \/ WorkerRuns \/ ThreadWorkerTest \/ ThreadWorkerSleep
     \/ ThreadWorker_Card1_CH1 \/ ThreadWorker_Card1_CH2
     \/ ThreadWorker_Card2_CH1 \/ ThreadWorker_Card2_CH2
     \/ HandleCard1Channel1 \/ HandleCard1Channel2
     \/ HandleCard2Channel1 \/ HandleCard2Channel2
     \/ DisplayTest \/ Display_worker_card1_ch1 \/ Display_worker_card1_ch2
     \/ Display_worker_card2_ch1 \/ Display_worker_card2_ch2
     \/ TenSeconds
     \/ \E t \in Threads : StageStep(t)
     \/ ProcessCommands \/ StopAllSystemsOnce \/ DestroyDriverManager

\* The threads of the process and the driver's make progress; the card need not deliver.
Fairness ==
  /\ WF_vars(end = "none" /\ CallbackStep)
  /\ WF_vars(end = "none" /\ WorkStep)
  /\ WF_vars(end = "none" /\ DisplayStep)
  /\ \A t \in Threads : WF_vars(end = "none" /\ StageStep(t))
  /\ WF_vars(end = "none" /\ DestroyDriverManager)

Spec == Init /\ [][Next]_vars /\ Fairness

-----------------------------------------------------------------------------
(* Properties.                                                             *)

\* The buffer of a channel is not given back, by a command or with the card, while the
\* callback transfers or copies from it, and its video writer is not closed while the
\* display thread writes: the flow of frames is off, and the threads have ended, before.
\* What the code does not prevent is named: a driver call whose result was overwritten in
\* rc by another one's, after which nothing is claimed of the buffer - a free that seemed to
\* fail also leaves the callback a pointer to what is gone; and for the writer a stop that
\* meets the start-up, and the commands that close the writers of the whole card, or open
\* them anew, and leave this channel's display thread alone: a stop of the card's other
\* channel or of both cards, and a restart of a channel that runs or of the other one.
WholeCard == \E t \in Threads : At(t, "releaseCard") \/ At(t, "writers")
FreedUnused ==
  [][/\ mem /\ (~mem' \/ (At("control", "free") /\ todo' # todo))
          => cb.at # "dma" \/ history.masked
     /\ video /\ ~video' => dp # "write" \/ history.overlap \/ WholeCard]_vars

\* Two frames are compared only when they are of one run: what was captured before a stop
\* and what comes after a restart are different pictures, not a flicker.  Two exceptions: a
\* driver call whose failure was masked, and a frame that is still on its way when the
\* statistics are reset while frames are being compared - because the channel runs on, or
\* because its buffer could not be freed, which is what starts the ten seconds anew: that
\* frame becomes the first of the next run.
ComparedWithinRun ==
  [][wk.at = "handle" /\ wk'.at # "handle" /\ ssim.warm /\ ~ssim.first
       => \/ ssim.prev = wk.frame
          \/ ssim.prev \in history.late
          \/ history.masked]_vars

\* A command comes to its end, and after a signal or "stop all" so does the process, with
\* every thread joined - unless the worker misses the stop, because the notification is sent
\* without the mutex it tests the flag under, or because it raises the flag itself after the
\* stop has lowered it, or the stop meets the start-up.  Where driver calls fail more
\* than once the process may end the hard way: a flow of frames that can be turned off
\* neither by the stop nor by the destructor's leaves the card open and the threads unjoined.
Excused == history.lost \/ history.overlap
LeftOpen == end = "terminate" /\ driver /\ failures > 1
Stopping == halted \/ todo["control"] # <<>>
Stopped == IF halted THEN end = "clean" \/ LeftOpen ELSE todo["control"] = <<>>
StopEnds == Stopping ~> (Stopped \/ Excused)

=============================================================================
