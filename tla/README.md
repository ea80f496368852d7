# Verification of the SRL2 limb controller

The repository holds the controller of a supernumerary robotic limb: two arms
worn by a person, each with three CAN motors (MIT protocol), three Dynamixel
servos and a gripper. `SRL2/` is the C++ program that runs on Xenomai;
`SRL2_learning/` is a Python rewrite of its data path for teaching. This
directory models the parts of them that decide what the arms do, checks the
models with TLC and proves their safety with TLAPS.

## 1. Inventory

Threads of the C++ program (there is not a single lock in it):

| thread | where | period | what it does |
|---|---|---|---|
| control task of an arm, one for `arms[0]` (left), one for `arms[3]` (right) | robot.cpp 42-54, 311-1583 | 5 ms, priority 60 | protection, mailbox, motion handlers, frames for motors and servos |
| `TopCtrl` | main.cpp 2627-2759 | priority 55 | hand speed windows, force sensor, simulation state |
| `keyscan` | main.cpp 2831-3012 | blocks in `cin` | keys become commands to the arms |
| `state_change` | main.cpp 2762-2829 | 5 ms | overhead support: hand posture and speed become commands |
| `Hololens::msg_recv`, `Hololens::HoloCmd` | Hololens.cpp 258-290, 433-605 | socket, busy loop | messages of the headset |
| `processt265`, MuJoCo loop | main.cpp 3014-3214, 3516-3599 | camera, 60 Hz | pose input, simulation |

Components, their state, operations and what makes them correct:

* **Arm control state machine** (`robotArm`, robot.cpp): `m_SM` (mailbox
  `action`, `state`, `motiontype`), one `onoff`/`firsttime` pair per motion, the
  path `m_RMLMotion`, `m_MotorsEnabled`. Operations: enableMotors, beginMotion,
  stopMotion, clearRmlPoints, addRmlPoint, setZeroPos from other threads; one
  control cycle. Hard: every operation races the cycle, checks of `state` are
  made before the mailbox is read, several writers overwrite one slot, a motion
  that ends clears the mailbox. Correct when: one motion at a time, no motor
  driven on a disabled arm, paths executed within their bounds and unchanged,
  a stop stops.
* **Keyboard** (`keyscan`): the selection of limbs `ids`, the task state, the
  toggle `enable`. Hard: one toggle for whichever limbs are selected. Correct
  when: a key asks the limbs whose label is shown.
* **Motor drive** (`mitMotor`, mitmotor.cpp): command position and the last one
  sent, feedback of the last two replies, the enabled switch, limit checks.
  Hard: checks that refuse a command but keep half of its effects, a static
  array of trip flags shared by all motors. Correct when: no step sent on the bus
  is larger than the limit, a tripped motor does not drive.
* **Motor codec** (pack_cmd, unpack_reply): clamping, quantisation and bit
  packing. Correct when: fields survive the frame, the error is below one step.
* **Magnetic encoders** (magneticencoder.cpp, canrx, setZeroPos): two kinds with
  frames, signs and scales of their own; `pos` and `pos_init` of each. Hard:
  setZeroPos sleeps 10 ms for the encoders asked by `id` and takes the angle of
  those asked by `0x600 + id` in the statement after the question. Correct when:
  an angle is within half a turn, and the zero taken is where the joint is.
* **Servos** (rt485.cpp, Dynamixel.cpp, protocol2_packet_handler.cpp): the flag
  `is_using_` of a port and its input buffer, shared by the control task, the
  keyboard and the headset. Hard: the flag is tested and set in two steps,
  cleared after a refusal, and every result of the SDK is ignored, so a disable
  that meets a busy port is dropped. A silent servo costs 34 ms of the 5 ms cycle.
  Correct when: the port does not stay taken, an undisturbed call reaches every
  servo, the cycle goes on.
* **Overhead support** (`state_change`, SUPPORT handler, TopCtrl's windows):
  `state_support`, `m_Support.F`, the shared `cmd`. Hard: two arms and two
  threads share one variable to leave the force control. Correct when: the force
  stays in its range and does not jump, both arms leave when the person does.
* **Headset server** (Hololens.cpp): the message string and the command flag,
  written by the receiver and read by the command thread. Hard: the flag is
  consumed after the string may have been replaced, and a short message ends the
  program. Correct when: what is carried out is the message that asked for it or
  a later one, joint and servo agree, no command is lost while nothing happens.
* **Joint and motor mapping** (robot.cpp 98-146, joint_motor_mapper.py): a coupled
  transmission with formulas for positions, velocities, torques and back. Correct
  when: they are inverse to each other and keep the power.
* **Python teaching pipeline** (`SRL2_learning`): planner, state tracking,
  controller, dynamics service, actuator. Hard: the tracker and the cache keep
  values between motions; step counts are rounded. Correct when: a motion keeps
  its speed, goes straight, arrives, and its records fit each other.
* **CAN receive task** (rtcan.cpp), **force sensor** (ftsensor.cpp), **T265
  camera**, **MuJoCo and V-REP mirrors**, **dynamics, kinematics, motion planning**
  (thin layers over RBDL and Reflexxes), **phone link** (CPython.cpp).
* Vendored: Eigen, RBDL, Reflexxes, Dynamixel SDK, remoteApi,
  coppeliaKinematicsRoutines, simMath; robot models in `urdf_0.1.4.2`.

## 2. Modules

| module | models | state | one action per |
|---|---|---|---|
| `ArmControl` | `robotArm::ctrlStateMachine` and the threads that command it | mailbox, `m_SM.state`, motion flags, path, switches of the motors, global `cmd` | read of the mailbox, block it guards, way a motion runs or ends; step of a motion function |
| `ArmSession` | nothing: what an arm promises, stated without mailbox, cycles or threads | the motion followed, enabled, driven motors | begin, end, lose, enable, disable |
| `KeyScan` | the keys of `keyscan` that select limbs, change the task, enable, zero, show and quit | `ids`, label shown, task, toggle, what was asked last | key |
| `OverheadSupport` | `state_change`, the `SUPPORT` handler of both arms, the keys | hands, `state_support`, 6 s sleep, `m_Support.F`, `cmd` | test of `state_change`, branch of the handler, control period |
| `MotorDrive` | one `mitMotor` between the cycle, `setZeroPos` and the replies | `pcmd`, `pcmd_last`, `tcmd`, `posr`, switch, trip flags, last frame, the motor's own power | group of stores another thread can see, test, frame |
| `MotorLink` | `pack_cmd`, `unpack_reply`, `enableMotor`'s frames, the motors' half of `canrx` | what was asked, what the motors read, what was measured, what is known | command, switch, reply |
| `EncoderZero` | the encoders' half of `canrx`, both `unpack_reply`, `setZeroPos` of the arm | kind and reading of each encoder, questions on the bus, `pos`, `pos_init` | question, sleep, store, answer |
| `ServoBus` | every write to a servo, through `txPacket`, `rxPacket`, `txRxPacket` | `is_using_`, input buffer, where three threads are, torque of the servos | test or store of the flag, write, read, timeout |
| `HoloServer` | `msg_recv`, `msg_fun`, `HoloCmd` with HJ | received text, shared text, command, target of joint and servo | store or read of a shared variable |
| `HoloTarget` | nothing: what the headset server promises the wrist, stated without texts, flags or threads | messages seen, the message joint and servo have their target from | arrive, aim, reach, fail |
| `JointMotorMap` | `jointToMotor`, `motorToJoint` in both languages | none: operators | - |
| `LearningPipeline` | `run_joint_space_motion` | planner, tracker, cache, recorded commands | plan, control period |

`MC*.tla` hold the small sets the configurations use, `*Proofs.tla` the theorems.
Definitions ending in `Slip` (and `DoBeginTwice`, `HomeKeepsCmd`,
`DownOnce`) are faulty variants that no action uses. Each breaks one property:
they show that the property speaks about the code.

How the models meet. `ArmControl` has the switches and the static trip flags of
all motors; `MotorDrive` takes one motor and opens up what `ArmControl` does in
one step (the switch of the object, the frame, the command positions), and
leaves open which handler runs. Both implement `ArmSession`: `ArmControl` with the
motions and motors of its arms, `MotorDrive` as an arm that never moves and whose
two motors are the switch of the object and the motor's own power. `HoloServer`
implements `HoloTarget`. `OverheadSupport` keeps of `ArmControl` one store
per request and one motion per arm and adds time and the ramp. `MotorLink` starts
where `MotorDrive` ends, at the values given to `pack_cmd`. `EncoderZero` is the
half of `setZeroPos` that `MotorDrive` leaves out. `ServoBus` takes the
servos' part of the switching blocks of the cycle, which `ArmControl` leaves out, and the
writes of `HoloCmd`, which `HoloServer` passes in one step. `MCArmBuses` puts
the three parts of an arm's wiring side by side: motors and encoders share CAN
and only `canrx`, which tells their frames apart by length, servos have a port of
their own. They share no variable, so each behaviour lets one part act
(`part`) while the others rest. `LearningPipeline` uses `JointMotorMap`.

Correspondence, where it is not word for word:

* There is no lock in the program, so a thread is a program counter, and each
  test of a shared variable and each group of stores is a step. In `ArmControl`
  a cycle reads `m_SM.action` five times; each read is a step. `beginMotion`
  stores `action` and `motiontype` in an order that another thread cannot rely
  on: both orders are allowed. The blocks of enable and disable store
  `m_MotorsEnabled` (`SetMotors`) and then switch one motor per step
  (`SwitchMotor`), so a `setZeroPos` can come in between two of them. The loops of
  the protections stay one step: they and `setZeroPos` only switch off, so their
  order does not matter.
* In `KeyScan` a key is one step. The task of an arm may write 'l' or 'w' over the
  global `cmd` between the `cin` and the switch; both have no case, so the key is
  lost, which is the step `NoCase`.
* A path point is who added it and its number; the position is of no interest to
  the control. Reading `ps[idx]` beyond the end is undefined: the task goes on
  with garbage or crashes.
* Limits are a choice of the motors that exceed them, except in `MotorDrive`, where
  the comparisons with `pcmd` and `pcmd_last` are the subject. There a unit is 2
  degrees, so the step of 4 degrees (800 degrees/s in 5 ms) is 2 and the tracking
  limit of 6 degrees is 3.
* The force of `OverheadSupport` is counted in steps of 0.05 N. The torque of a
  cycle uses the force before it is cut to 40 N, so it can exceed the limit by
  one step; the module keeps `m_Support.F`.
* `MotorLink` computes in hundredths; the rounding of floats is left out.
* `EncoderZero` counts 256000 to the degree, in which both kinds of reading are
  whole numbers. Encoder 7's angle is read and then not used by the paths
  (`encoder_pos[0]=0.0`, robot.cpp 1616); its zero is taken all the same.
  The two places that ask encoders with a decimal `607+i` (robot.cpp 955, 1126)
  reach none; `PathBegins` asks the first kind only.
* `ServoBus`: a status is the servo it comes from. Two threads that read the port
  at once may each get a part of a status, which then is lost (`Split`). A write that
  fails or is not heard is `LoseFrame`.
* `HoloServer`: reading a `std::string` while it is assigned gives the old text, the
  new one or a mixture. Messages are told apart by what `msg_fun` does with them.
* `LearningPipeline`: in a motion of n periods all angles are scaled by n, so that
  interpolated positions are integers. The transmission is that of robot.cpp 98-146
  with any integer ratios.

## 3. Runs

| run | bounds | what it shows |
|---|---|---|
| `arm_threads` | one arm, `keyscan` and `state_change`, motion SUPPORT in scene 1 (which restarts a path), all switching operations | `OneMotion`, `DriveNeedsArm`, a tripped arm drives nothing past its protection (`TrippedStands`), and every step is a step of `ArmSession`, with two commanders that overwrite each other at any moment |
| `arm_paced` | one arm, one operator, a path of up to two points, an endless and a timed motion, enable, disable, stop, nothing asked before the mailbox is empty | paths stay in bounds, no begin is left behind, a path followed is one whole command (`WholePath`) and is followed point by point to its end or a stop (`PathCompleted`), paths end; a command waits until it is carried out or the end of the timed motion drops it (`MailKept`), a stop always stops (`StopHonoured`), the m key takes effect unless such an end drops it (`CommandTaken`) |
| `arm_trip` | two arms | one trip cuts off both arms for good: the flags in `protect` are static |
| `arm_ignored` | violation | a command refused as "ignored" has already replaced the path that is running |
| `overhead` | two arms, one key at any moment, ramp of two steps, sleep of eight periods | every torque has a force, the force control of both arms is over when `state_support` becomes `support` (`ForceIsOver`), the request for a path is not overwritten (`PathRequestKept`), both arms leave, and without keys they leave for a reason and go home |
| `bus` | two motors with values beyond each limit and next to the switching frames; two encoders of either kind with readings at both ends; one servo of the wrist and the gripper, three threads | commands and replies survive the frame, only `enableMotor` switches; angles are true, one or two presses of z zero the joints; the port is not left taken, undisturbed switching reaches every servo, the cycle goes on |
| `drive` | positions -1..2 for a step of 2 and a tracking limit of 3; torques 0, below and at the limit | consecutive position frames less than a step apart, the switch of the object and the motor's own agree but for the frame still owed (`SwitchesAgree`), every step is a step of `ArmSession` for these two switches, no motor left on that the program has switched off |
| `drive_torque` | violation | a refused torque goes out with the next `fetchState` |
| `drive_track` | violation | a refused position trips the tracking protection |
| `learning` | ratios 2, 3, 5; a few starts and targets, requested speeds of every kind (default, below the floor, usual) | speed, direction, arrival, and records that fit each other, over motions that follow one another |
| `holo` | four messages of every kind | texts are not older than their command, commands set at rest are carried out, every step is a step of `HoloTarget`, so joint and servo agree and never go back (`KeepsTarget`) |
| `keys` | violation | with the label of the left limb the key m enables both arms |

Why the bounds are enough. An arm's step reads and writes that arm's variables,
`cmd` and the trip flags; with two commanders every pair of writers of one mailbox
occurs, a third repeats them. The second arm matters only for the flags and for
`cmd`, which `arm_trip` and `overhead` have. Two motors in `arm_threads` leave room
for another thread in the middle of an enable or a disable; the other runs need one.
The kinds of motion differ in how they end, so one motion of a kind is enough; a
timed and a force-controlled one end with the same stores (`EndMotion` and `NONE`), so
`arm_paced` has only the first, whose end can drop a waiting command, and `MailSafety`
covers both. Two points are the shortest path whose
index moves. `MaxIdx` bounds how far a task reads outside its path before it is
taken to crash. A single key (`MaxKeys`) meets every phase of one overhead
session, and sessions repeat, since the hands move freely. The ramp needs a step
that is not at a limit; a sleep of 7 is the least the proof of `ForceSafety`
needs for that ramp, one key and two arms, and one more, `SleepTicks` = 8, the least
`RequestSafety` needs, as 6 s exceed the 640 cycles of 5 ms of
the real ramp. In `drive` the positions contain steps below and at both limits. Two
servos are the least with a next one and with a foreign status to read; the three
threads are all there are. Two encoders are the least with one on each side of the
change of sign (8 and 9); the kinds are chosen freely. Four messages are a command, one that
replaces its text, one that replaces the command and one that closes the socket or
ends the program. The runs of `MotorLink`, `EncoderZero` and `LearningPipeline` take
a few values of each number, which the proofs then extend to all.

`CHECK_DEADLOCK FALSE` stands where the system may stop: an arm task that has
crashed reading beyond its path, the headset server after the socket is closed or
the program has ended, the keyboard after the quit key.

Assumptions a reader should know:

* `Paced` (`arm_paced`): the operator waits until the mailbox is empty or holds a
  stop an arm at rest will not take. Cycles take 5 ms and keys are pressed by hand.
  Without it the properties of that run are false: a begin stored late waits and
  starts by itself, a stop overwrites a begin. `arm_threads` says what is left then.
* `CommandTaken` is not about every m key. A command that arrives while a timed or
  force-controlled motion is in its last cycle is overwritten by that motion's
  `NONE` (robot.cpp 912, 1022, 1204, 1492), also under `Paced`; the property then
  says only that the arm comes to a stop.
* `Undisturbed` (`overhead`): no cycle of an arm falls between the test in
  `beginMotion` and its store. With `FALSE` TLC finds a torque without a force: the
  late request waits until the path home ends and starts the force control while
  `state_support` is `support`.
* `Slept` (`drive`): `setZeroPos` sleeps 20 ms before it switches off, so no enable
  waits in the mailbox then. Without it the frames of the two threads can cross
  and leave a motor on.
* `StepBounded` exempts the instant in which `setZeroPos` has stored the measured
  position in `pcmd` and has not sent its frame: a cycle that has just tested the
  old value sends the new one untested.
* `alone` and `undisturbed` (`bus`): `SwitchReaches` speaks of a call no other thread
  meets and no frame of which is lost, `ZeroTrue` of presses of z while the arm
  rests and every answer arrives. Both are history variables that the actions do not
  read. In every other case the code drops writes or takes an old angle without a
  word, which the models contain.
* In `EncoderZero` an answer comes within the 10 ms of `setZeroPos` or not at all.
* The receive task is not started in this commit (main.cpp 3467-3470 is commented
  out); the models contain it because the code does.

Fairness. `ArmControl`: weak fairness of the cycle of each arm (a periodic
real-time task) and of a call once begun, strong fairness of reaching a path
point (Reflexxes reports the target after finitely many cycles, so "not yet" is
not reported for ever). `OverheadSupport`: the threads and time go on.
`MotorDrive`: the cycle and a `setZeroPos` once begun. `ServoBus`: weak fairness of
the control task, strong fairness of its timeout, which is due by the clock however
many statuses of other servos come in between; the other threads may stop for
ever. `HoloServer`: weak fairness of both threads. No key, hand, message or reply is
ever owed.

## 4. Proofs

Every safety property of the passing runs is proved, for every value of the
constants that satisfies the assumption named in the module; theorems that need
more state it as a hypothesis. The type invariants are proved and no longer part of
the runs, and so are two properties that a stronger one of the same run replaces:
`PathFrozenWhileRunning` (while a path is followed, `WholePath` leaves no commander
at a step that clears it or adds to it) and `OneTarget` (`KeepsTarget`). Where a property is not inductive, the
strengthening is named here.

* `ArmControlProofs`, from `ArmControlAssumption`. `Typing`: the types are not
  inductive alone, since a step of a commander looks into its job; with them goes
  the fact that a commander that is not idle has a job that fits its step.
  `MotionSafety` (`OneMotion`): between the test of `STOPPED` and the block that
  begins a motion lie other threads' steps, so the invariant adds that a cycle
  about to begin still finds its arm stopped, which only that cycle can change.
  `DriveSafety`: every writer of `drive` outside the block of ENABLE_MOTORS only removes
  motors, and on an arm that is not enabled only those are still driven that the
  block of DISABLE_MOTORS has not reached (`Pending`).
  `SessionRefinement`: `ArmControl` implements `ArmSession` (`KeepsSession`), step by
  step, from the two invariants above. To a session an enable or disable is done when
  `m_MotorsEnabled` is stored: the mapping counts the motors the block has still to
  switch as switched, and each turn of the loop is a stutter.
  `PathSafety`, `BeginSafety`, `FrozenSafety`: under `OneOperator` (`Paced`, a single
  commander, a scene that does not restart paths) a path is read within its points,
  no begin is left behind and a path under way is not rewritten, for any number of
  arms and points. The three hold together (`OperatorInv`): a cycle about to
  begin a motion still finds the request (`BeginWaits`); until the operator has
  stored one none waits, and an arm found stopped stays so (`Quiet`); the index of
  a path being followed is on it (`OnPath`), and at its end before the substep that
  ends it.
  `TripSafety` (`TrippedStands`), without `OneOperator`: an enable switches the motors on and returns
  before the motion, so the next cycle of a tripped arm meets the protection with
  its motors on and no handler in between.
  Under `OneOperator` again, three results on what follows from a command:
  `MailSafety` (`MailKept`), from the facts that a block of the cycle still
  finds the command it was entered for (`Waits`) and that nothing waits while the
  operator is about to store (`Empty`); `WholePathSafety` (`WholePath`), from the
  operator's count of the points added (`Counted`) and their order in the path
  (`InOrder`); `PathCompletion` (`PathCompleted`), from `OnPath`.
* `OverheadSupportProofs`, from the assumption of the module. `SupportTyping`: the
  force stays in its range. `ForceSafety` and `LeaveSafety`, under `Outlasts`: the
  sleep is at least the ramp, plus the keys, plus the number of arms, plus two
  periods. The invariant gives each arm a `Budget`, the periods it may still need
  before it has left the force control, and says that the rest of the sleep covers
  it (`InTime`); so `state_support` changes to `support` only when no arm uses the
  force, none is about to and none is on its way home from it: `ForceOver`
  (`ForceIsOver`). `Cause` remembers why an arm may leave: a key, or the low end of the ramp
  while the hands are down.
  `RequestSafety` (`PathRequestKept`), when the sleep has one more period to spare
  (`Spare`) and `state_change` asks each arm once: a request for a path waits only
  for a stopped arm and is gone before the sleep ends (`PathWaits`), so none waits
  for an arm that is still to be asked for the force control (`Unasked`).
* `MotorLinkProofs`, from `LinkAssumption`, which needs kp below its maximum (nothing
  calls `setCtrlPara`, kp is 100 of 500). `CommandSafety`: arithmetic lemmas on
  scaling, division and the cutting of a number into bytes, then the round trip
  of the five fields. `SwitchSafety`: a frame with that kp differs from both frames
  of `enableMotor` in the bytes of kp. `ReplySafety`: the round trip of a reply and
  the distinct identifiers.
* `MotorDriveProofs`, from `DriveAssumption`. `DriveTyping`, and `StepSafety`
  (`StepBounded`): after a position frame, `pcmd_last` is its position, unless
  `setZeroPos` has overwritten it; then the motor is off for the program and
  `pcmd` still is that position, because only an enabled motor is given a new one,
  and the enabling frame comes first. What is left is the cycle that had passed
  the test of `enabled` before: it has either sent its frame already or not sent
  one since the switching frame (`AfterOff`).
  `SwitchAgreement` (`SwitchesAgree`): only an armed arm is on the way to switch on
  or is cut by a trip, and one that is not armed has its switching off before it
  (`Armed`); with `setZeroPos` at work only while nothing is asked, this is
  inductive. `DriveSession`: `MotorDrive` implements `ArmSession`
  (`KeepsSession`). A switch counts as on (`SwitchOn`) from the moment the enable
  is taken to the moment the disable is, ahead of the stores and frames still
  owed; then each step arms, disarms, loses a switch or changes nothing.
* `EncoderZeroProofs`, from `EncoderAssumption`. `AngleSafety`: a reading plus a
  zero of at most half a turn is within one turn and a half, so one correction is
  enough, and the sign does not leave the range. `ZeroSafety`: during an
  undisturbed press, an encoder of the first kind that no longer owes an answer
  has the angle of its joint, and from the second press on one of the second kind
  has it from the press before.
* `ServoBusProofs`, from `ServoAssumption`, for any number of servos. `PortSafety`
  is nearly inductive: every way out of the steps that hold the flag clears
  it. `SwitchSafety`: a thread alone on the port has switched all servos before
  the one it is at, and every other thread is idle (`Reached`).
* `HoloServerProofs`. `Numbers`: the shared text is never older than the message that
  raised the command last; `Sent`: where the second thread has put the text it works
  with. From them `OneTargetSafety` and `OwnTextSafety`, for any number of messages.
  `TargetRefinement`: `HoloServer` implements `HoloTarget` (`KeepsTarget`). The
  invariant `Forward` adds that a text the thread works with is at most the one
  assignment ahead of the shared one that is under way, and that a command which may
  still be read was raised by that text or a later one.
* `LearningPipelineProofs`, from `RatioAssumption` and `MotionAssumption`.
  `PositionRoundTrip`, `TorqueRoundTrip` and `PowerBalance` are algebra over all
  ratios. The rest rests on one invariant: after k of n steps the position is the
  interpolated one, its velocity the n-th part of the way, and no joint has a
  longer way than n steps of the speed asked for (the rounding up). From it
  follow speed (`SpeedSafety`), direction (`Directness`), the bounds of what the
  tracker reports (`BoundSafety`), the records (`Truthfulness`, `PowerSafety`) and
  arrival (`Arrival`).

Only model-checked: liveness, which is out of the prover's reach (`StopHonoured`,
`CommandTaken`, `MotionEnds`, `TripSpreads`, `BothLeave`, `LeaveGoesHome`,
`SwitchedOff`, `CycleGoesOn`, `CarriedOut`), and the four violations. Of most of
these liveness properties the safety part is proved, that is, what keeps the thing
that must happen from being undone on the way: `MailKept` and `PathCompleted` for
`StopHonoured`, `CommandTaken` and `MotionEnds`, `TrippedStands` for `TripSpreads`,
`ForceIsOver` and `PathRequestKept` for `BothLeave` and `LeaveGoesHome`,
`SwitchesAgree` for `SwitchedOff`. That the thing then happens rests on fairness
and on TLC.

## 5. Disagreements between code and text

* `arm_ignored`: "previous motion is not finished, motion command is ignored!"
  (robot.cpp 1900), yet the path was cleared and refilled before.
* `drive_torque`: "over cmd torque_limit" (mitmotor.cpp 286) refuses the frame and keeps
  the torque; `fetchState` sends it as soon as the motion is stopped.
* `drive_track`: the "position tracking error protection" (mitmotor.cpp 162) looks at a
  position that was refused and never sent.
* `keys`: the labels are limb_double, limb_right, limb_left (main.cpp 62), and with the
  label of the left limb m enables both arms, with limb_double only the left one;
  g asks the right arm under every label.
* Not a run: the comments on the frames (mitmotor.cpp 83) give a position range of
  -4 pi .. 4 pi, the code scales by 95.5 rad; "left limb error" and "right limb
  error" (robot.cpp 341, 345) are printed for every enabled limb once a motor of
  either has tripped; `is_using_` "shows whether the port is in use"
  (port_handler.h 67), yet writeTxOnly clears it after a refusal
  (protocol2_packet_handler.cpp 836).

What the models show beside that, and no text denies: a protection trip disables
the motors and not the servos (robot.cpp 319-348); the first press of z gives
encoders of the second kind a float without a value, later presses the angle of the
press before; an enable or disable of the servos that meets a busy port is dropped.

## 6. What could follow

The plan of the inventory is carried out: arm control and its abstract session,
overhead support, motor drive and codec, then headset, pipeline, encoders, servos
and keys. What remains within reach of these methods:

1. `MotorDrive` with a counter of lost replies and the speed as the difference of the
   last two: its check trips on twice the speed after a loss, and no text says what
   it should do.
2. A module that composes `ArmControl` and `MotorDrive` motor by motor. Each implements
   `ArmSession` by itself; that they do so together needs a common clock of the two.
3. The calibration flag `flagBD` of the headset, with the camera poses as
   model values.

## 7. Not modelled

* Vendored code (Eigen, RBDL, Reflexxes, simulators, GLFW, remoteApi, headers and
  robot models), which is more than nine tenths of the lines of the repository; of the
  Dynamixel SDK the three functions the port depends on are in `ServoBus`.
* Kinematics, dynamics, filters and planning over RBDL and Reflexxes, and the poses
  the motion functions of main.cpp command: numeric code and tables of numbers whose
  correctness is a matter of reals. `ArmControl` takes `rmlStep` by its result.
* TopCtrl's speed windows (a mean of 81 and of 6 samples divided by one less). In
  `OverheadSupport` the hands take any posture at any moment, so its properties do not
  depend on them.
* Force sensor, camera, phone, simulators, visualisation and scripts: input and
  output without control. The loop of the CAN receive task only calls `canrx`.
* Of the Python package the Cartesian experiments, replay and the observation trackers
  the pipeline does not use.
* Floats, hence NaN, which passes every comparison of the position checks.

PROJECT.json lists each part with its reason and each hazard with the properties
that watch it. Of these hazards no property covers: one arm that is not asked for the
overhead support while the other is (main.cpp 2795); the speed check after a lost
reply (mitmotor.cpp 175); a motor moved by hand before an enable (mitmotor.cpp 423);
the toggle of the m key after a change of the selection (main.cpp 2873); a switching of
the servos that meets a busy port and is dropped (Dynamixel.cpp 23); an encoder that
does not answer (robot.cpp 1608); the short message that ends the program
(Hololens.cpp 469). Of some others only a part is: after a begin that was stored late
(robot.cpp 1892) or over a waiting stop (robot.cpp 463) the arm still follows one motion
and drives no motor unasked, but which command survives is not promised; of the two
headset commands that meet in one text (Hololens.cpp 469) the later one is carried
out, the other may be lost. The map covers a small share of the repository because most of it is
vendored; within robot.cpp, mitmotor.cpp, Hololens.cpp, rtcan.cpp and
magneticencoder.cpp it covers the control and leaves the numbers.
