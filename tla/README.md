# libzoh in TLA+

TLA+ specifications of libzoh, a Zigbee stack on the host: ZDO, ZCL and APS
over NWK over MAC over a Spinel driver that talks HDLC to a radio
co-processor. Paths are relative to the repository; `src/ZigbeeNwk.cpp:198` is
line 198 of that file. Modules are checked with TLC on small instances, and
theorems about them are proved with TLAPS for every value of the constants.

## The system

| Part | State | Operations | Talks to |
| --- | --- | --- | --- |
| `RawSpinelDriver` (`src/platform`) | rx thread, `m_running`, two callbacks, send mutex | `start`, `stop`, `sendRawFrame`, property commands, `rxLoop` | `SerialPort` below; raw and event callbacks into MAC |
| `SerialPort` | file descriptor or handle | `readSome`, `writeBytes` | the operating system |
| `ZigbeeMac` | `m_mutex`, `m_running`, two callbacks, association flag | `start`, `stop`, `setChannel`..., `sendFrame`, `handleInboundRaw`, `handleSpinelEvent` | driver below; NWK callbacks, called under `m_mutex` |
| `ZigbeeNwk` | `m_mutex`, `m_running`, maintenance thread, neighbour table, route table, sequence number, own address, payload callback | `start`, `stop`, `sendNwkFrame`, route discovery, repair, many-to-one, route record, route error, link status, pruning | MAC below, `SecurityManager`; payload callback into APS |
| `ZigbeeAps` | `m_mutex`, `m_running`, ZDO handler, APS counter | `start`, `stop`, `sendApsData`, `handleNwkPayload` | NWK below; ZDO handler, called under `m_mutex` |
| `ZigbeeZdo`, `ZdoEndpointTable` | short and IEEE address, endpoint table | one handler per request, responses through APS | APS |
| `ZigbeeZcl` | endpoints with clusters, attributes and command handlers | register, read, write, `handleApsFrame` | a hook into APS that APS never calls |
| `SecurityManager` | keys, frame counter | `nwkEncrypt`, `nwkDecrypt`, `apsEncrypt`, `setNetworkKey`, `setLinkKey` | leaf; the cipher is a stub that copies |
| header codecs | none | parse and build MAC and NWK headers | leaf; nothing in the library calls them |
| `examples/coordinator.cpp` | none | starts and configures a coordinator | all layers |

Three kinds of thread run in this code: the application's, which call the
public interface; the rx thread, which reads the port and climbs the layers
through callbacks; and NWK's maintenance thread. What is hard, and a test would
hardly reach:

* every layer calls the next, up or down, with its own non-recursive mutex
  locked, so the locks are taken in opposite orders by traffic that goes up and
  down, and some threads are joined under them;
* callbacks are tested and called without the lock that guards clearing them;
* the neighbour and route tables are touched by three threads, mostly without
  a lock;
* the byte stream may lose or gain bytes, reads cut it anywhere, and the driver
  can be restarted in the middle of a frame;
* route discovery and repair are started and never timed out;
* the endpoint table of ZDO is filled by the application while the rx thread
  answers from it;
* a frame takes its counter, and is sent, while another thread sets the key;
* a partial write of a frame counts as sent;
* requests and frames may be cut anywhere, and counts in them are trusted or cut
  to a byte.

`PROJECT.json` lists each of these hazards at its line, with the properties
that bear on it.

What makes each part correct: of the stack as a whole, that calls return,
frames are handled, mutexes are taken in an order and callbacks are not called
when they are gone; of the driver, that it hands up the frames that arrived
intact, once and in order; of the neighbour table, that exactly the silent
neighbours leave it and that what is announced of it is consistent; of the
route table, that an active route is not lost and a broken one is repaired; of
the codecs, that parsing inverts building; of ZDO, that a request has the
answer its layout comments describe; of security, that a counter is not used
twice with one key.

## The modules

| Module | Models |
| --- | --- |
| `ZohStack` | threads, mutexes and callbacks of all layers, composed |
| `ZohStackProofs` | theorems about it |
| `SpinelChannel` | the abstract promise of the receive side: a lossy ordered channel |
| `SpinelFraming` | the byte stream and `rxLoop`, which implements it |
| `SpinelFramingProofs` | theorems about it, the refinement included |
| `NwkNeighbours` | the neighbour table between rx and maintenance thread |
| `NwkFrames` | the route table between senders, rx thread and `repairRoute`, and the NWK and APS frames built and parsed |
| `NwkFramesProofs` | theorems about it |
| `Bytes` | two-byte fields and bits in frames |
| `BytesProofs` | lemmas about them: what is written at a place of a frame is read there; lemmas about loops; theorems about the codecs of `FrameCodecs` |
| `FrameCodecs` | the MAC and NWK header codecs, the Spinel header, byte stuffing and CRC, as operators |
| `SpinelLink` | a call of one host through its driver, line and radio to another host or to a radio's property, byte by byte |
| `SpinelLinkProofs` | theorems about it |
| `ZdoServer` | ZDO requests and answers, and the endpoint table the application fills meanwhile |
| `ZdoServerProofs` | theorems about it |
| `AttributeStore` | the abstract promise of ZCL's attributes: a store |
| `ZclAttributes` | ZCL's endpoints, clusters and command dispatch, which implement it |
| `ZclAttributesProofs` | theorems about it, the refinement included |
| `SecureSending` | `SecurityManager`, and the order in which frames take a counter and are sent |
| `NwkProofs` | theorems about `NwkNeighbours` and `SecureSending`, the two modules it extends |
| `MC...` | the instances for TLC: `MCNwk` and `MCApplication` of two modules each, the others of one |

### ZohStack

One step is the code between two points where a thread can be held up: taking
one of the mutexes of APS, NWK or MAC, joining a thread, reading the port, or
touching a `std::function`, or the state of a route, that another thread may be changing. `pc[t]` names
the operation thread `t` is about to do, `owner` the holder of each mutex,
`running` and `handler` the `m_running` flags and callbacks. Data is kept where
it decides control: the state of a route, the kind of the frame received,
whether the node has a short address. `Call` starts an operation of the public
interface; `StartStep`, `StopStep` and `SendStep` are `start`, `stop` and
`sendNwkFrame` through all layers; `RxFrame` and what follows is `rxLoop` with
the handlers of every layer; `MaintStep` is the maintenance thread.

Modelled as outcomes of undefined behaviour: locking a `std::mutex` twice
blocks for ever, as the pthread mutex under it does; `m_ownShortAddr` is never
assigned, so whether the node thinks it has an address is any choice (`hasAddr`
in `Init`); calling an empty `std::function` and overwriting a joinable thread
end the process (`fault`). Unlocked accesses of the route table are atomic and
interleaved: a discovery makes or tests the entry (`DiscoveryStarts`) and then marks it
(`DiscoveryMarks`).

`m_sendMutex` of the driver and the mutex of `SecurityManager` are leaves (nothing
is called with them held that could wait for another of these mutexes), so a
critical section of theirs is part of a step.

### SpinelFraming

The radio writes frames as `hdlcEncode` lays them out: a flag, the body in two
halves, a flag. The line loses a flag or a half, or puts a flag or junk in the
place of a half (`Strike`). `read` and `pos` are how far the driver has read and
parsed: `line[pos + 1 .. read]` is `buffer`. `RxRead(k)` is `readSome`, which may
return any first part of what has arrived; `ParseFrame` is one round of the parse
loop and `ParseEnd` its end with the erase. `Stop` and `Start` restart the driver: the
buffer is a local variable of the thread and is lost, the port stays open.
Byte stuffing keeps flags out of a body, so a body is abstracted to two symbols;
a damaged body is assumed not to pass the CRC.

`ImplementsChannel` maps the radio's position to the number of frames sent and
the driver's `handled`, the sequence of the frames given to `handleSpinelFrame`, to those
delivered. The abstract channel may lose frames, and never invents, repeats or reorders them: a
frame handled again would make `handled` longer, which no step of the channel does with a
frame that is not later than the last. `OneFrameIsHeld` counts the flags in the buffer; how
much follows a flag that is never closed nothing bounds, in the code either.

### NwkNeighbours

`EnterNeighbour` and `StampNeighbour` are the two accesses of `updateNeighbor`
that matter: `operator[]`, which may make an entry with a zero `lastHeard`, and
the assignment of the time read at the start of the call. `CountNeighbours`,
`ListNeighbour` and `SendLinkStatus` are `sendLinkStatus`; `ReadClock`, `Collect`,
`CollectEnd`, `Erase` and `EraseEnd` are `pruneNeighbors`. The `unordered_map` is shared
without a lock: accesses are atomic and interleaved, an entry made during a loop
may or may not be visited, and one that makes the map grow reorders it, so the
loop may miss entries or see them again (`Upcoming`, `regrown`). Time is the age of an
entry in ticks. The code stamps through a reference, which dangles if the entry was erased since
it was entered: that write changes nothing here. Other outcomes of the race inside the map (a torn pointer)
are not modelled.

### NwkFrames

Frames are sequences of bytes, because lengths and first bytes are what decides
how they are read. `BuildNwkFrame`, `ParseNwkHeader`, `ApsFrame` and `ApsIndication` are
the four codecs; `Command` is the switch of `handleInboundMacFrame` and `Complete` the
length checks of its handlers (`ManyToOneIsLong` to `LinkStatusIsLong`). `Send` to `SendReturns` is `sendNwkFrame` in the thread
that holds `m_mutex`, with a step for each access of the route table: the lookup,
the second lookup that copies the path, the discovery. `HearRouteRecord`,
`HearManyToOne` and `HearRouteError` take frames that other nodes build with the same
code, whole or cut, through the parser; `EnterRoute`, `ActivateRoute` and `AssignRoute` are
the assignments of `setRoute`. `RepairRoute` to `RepairRequests` are
`repairRoute` called by the application. `initiateRouteDiscovery` tests the state of a route in
one step (`SenderDiscovers`, `RxDiscovers`, `RepairDiscovers`) and writes it in the next
(`SenderMarks`, `RepairMarks`), because others write it under no lock. `overtaken` is history: the
threads between the two when their destination came under repair. They overwrite the repair;
`RepairEndsByNewsOrOverlap` says that nobody else does, but the rx thread with news. That the
test, which compares the state twice, reads it once is an assumption: the repository's build sets no
optimisation, without which a compiler may read it twice, and a thread could then miss both. A path copied while it is written to is any
mixture of the two paths (`Mixed`, `torn`); freed memory, which such a copy may also
read, is not modelled. The hop count and the sequence number have widths of their own
(`CountRange`, `SeqRange`) so that the smaller ones can be checked.

### FrameCodecs and SpinelLink

What `SpinelFraming` assumes of a body, that it decodes to what was encoded or to
nothing, is checked here with the code's own arithmetic: `Stuff`, `Unstuff`, `Crc` (CRC-CCITT
from 0xFFFF; its value over "123456789" is 0x29B1), `HdlcEncode` and `HdlcDecode`. `BuildMac`,
`ParseMac`, `BuildNwk` and `ParseNwk` are the header codecs; `BuildNwk` writes the fixed part
only, whatever the frame control promises, as `build` does. The loops over bytes and bits are one
operator, `Loop`, of which the loop's body is a parameter. `Bodies` is how `rxLoop` cuts a line by
pairs of flags, and `Frames` what it decodes of the line.

A behaviour of `SpinelLink` is one call and what follows from it. `Write` is
`sendRawFrame` or `sendSpinelSetProp` down to `SerialPort::writeBytes`, which may take any
first part of the bytes or fail; `FlipBit` is the line; `RadioReads` is a radio, which
sets a property or passes a raw frame, with RSSI and LQI, to the radio of another host
(modelled from what `handleSpinelFrame` expects); `HostReads` is that host: `handleSpinelFrame`
and the handlers of `ZigbeeMac` by content, the answer to an association request
included. `writeBytes`'s count is returned as a bool (`AsBool`), so a call
that has failed or written a part says that it has written. `DamageIsNoticed` says that at least
nothing is made of the part, nor of a line with a flipped bit, if no flag or escape comes or goes inside the
frame (`Controls`). Without that condition it is true of the run's frames but not of all: a bit that makes a
flag inside a frame ends it there, and what comes before may end in the CRC of its own first bytes. A
raw frame of the bytes 0x00 0x05 0x75 0x53 0x7F, whose last byte is one bit away from a flag,
becomes the raw frame 0x00 0x05. That no 16 bits can exclude; it is no error of the code.

Two hosts that run this code do not associate: the answer begins with 0xC0, 0x80
(`src/ZigbeeMac.cpp:174`) and is looked for as 0xC080, low byte first (`:111`), so in
the model, too, `HandleInboundRaw` gives it to NWK. The code calls both frames
illustrative.

### ZdoServer

One action per handler of `handleZdoFrame`, from a request, whole or cut, to what is given
to `sendZdoResponse`. The endpoint table has no lock: `EnterEndpoint` and `AssignEndpoint`
are `operator[]` and the assignment of `addSimpleDescriptor`; meanwhile `SimpleDescriptors`
says what `getSimpleDescriptor` may return (old and new fields mixed, or nothing while
the map grows) and `ActiveEndpoints` what `getActiveEndpoints` may (a part, or some twice).
`handleMatchDescReq` looks endpoints up one at a time, which is why it has steps of its
own. `calm` says that the table was left alone while a request was handled. Freed memory
that a copy which races with an assignment may also read is not modelled.

`WholeRequestsAreAnswered` says what the code does where its handlers differ: address
requests are answered whoever they are for, with a failure if not this node;
descriptor requests for others get no answer; bind and unbind requests are always
answered with success. `ResponsesReadBack` leaves out the start index of an IEEE address
response, which is not what was asked for (run `ZdoStartIndex`), and speaks of descriptors with fewer
clusters in each list than its count byte can count; nothing in the code
says what a reader is to make of the others, or rules them out.

### ZclAttributes and AttributeStore

The nested loops over endpoints and clusters are loops over one sequence of
clusters. A read takes the first cluster that has the attribute, a write the first that
has it and lets it be written, so where an endpoint is registered twice with different
rights they may miss each other; `IsStore` is about the attributes on whose rights all
that is registered agrees (`Settled`), and maps them to the abstract store.
`HandleApsFrame` goes to the first server cluster with the id and ends there. The
comment "Called by APS for inbound frames" notwithstanding (`include/ZigbeeZcl.h`), APS
stores the hook that ZCL gives it and calls only ZDO's: `HandleApsFrame` is called
by nobody but the application.

### SecureSending

One step is one operation of `SecurityManager`, which has a mutex, or the handing over
of the frame to the MAC. `NwkEncrypt` keeps out other senders until `MacSend`, as
`ZigbeeNwk::m_mutex` does; `SetNetworkKey` is not kept out. `epoch` and `round` are history: which
setting of the key, or start of the process, a counter is of, and how often it has wrapped.
Two things the code leaves to the future show here only in this sentence: the
counter a frame took is discarded (`src/ZigbeeNwk.cpp:113`), and what is handed to the MAC
is an empty frame (`:96`). `apsEncrypt` gets the APS header with the payload, its security
bit included.

## The runs

Passing:

| Run | Shows | Instance |
| --- | --- | --- |
| `StackSafety` | lock discipline, the four known deadlocks and no other, layers agree after overlapping starts and stops, no handler is inside NWK once its callback is cleared, transmits only while running, empty callbacks only during a stop | 2 application threads, 3 calls of 6 kinds, 8 kinds of traffic; symmetric in threads and addresses |
| `StackQuiet` | a node that starts, discovers many-to-one and repairs routes from the application, with routes learnt, properties heard and data no ZDO handler answers, does not deadlock; calls return, frames are handled, maintenance goes on | 2 threads, 3 calls |
| `FramingSafety` | `rxLoop` implements the lossy channel, and holds one unfinished frame at most; while the flags are left alone, damage inside frames costs those frames only | 3 frames, 2 noises of any kind, 1 restart |
| `Nwk` | who is collected was silent, a round is thorough, a link status is long enough, and a silent neighbour is pruned; frames leave in the order of their counters, one late frame per key | 2 neighbours, timeout of 2 ticks, map grows past 1, count cut to 1 bit. 2 threads, 4 frames, 2 settings of a key or restarts, a counter of 3 values that wraps once |
| `NwkFrames` | a frame parses back to what was sent, is taken for data or command as meant, is harmless when cut; source routes end at their destination; a repair ends by news, or by a discovery decided on before it | 2 destinations with two-byte addresses, routes of 1 and 2 hops, secured and plain data, the 3 commands the node sends |
| `SpinelLink` | what is sent arrives as it was, what is damaged or cut does not, damage is noticed, headers read back and inside the frame | frames with flags, escapes and a NWK header of every part, cut anywhere; any one bit flipped; a write cut anywhere |
| `Application` | who is answered, what an answer says (an IEEE address response's start index apart), which endpoints match; attributes are a store, handlers stay | 4 descriptors of 2 endpoints, 3 of them added; a request of each kind, for this node and another, whole and cut; counts cut to 12 values. endpoints that repeat clusters, with different rights, 6 clusters; frames of 2, 3 and 4 bytes |

`Nwk` checks `NwkNeighbours` and `SecureSending`, and `Application` checks `ZdoServer` and
`ZclAttributes`. The two of a run share no variable, so in each behaviour one of
them moves and the other stays as it started (`moving`).

Violated, each by what the code does against what the repository says of it:

| Run | Property | What happens |
| --- | --- | --- |
| `StackStop` | `StopReturns` | `stop` joins the maintenance thread with the mutex locked that this thread waits for; or joins the rx thread, which waits for a mutex or for a byte |
| `StackUnicast` | `SendReturns` | a unicast without a route starts a discovery under `m_mutex`, which locks it again |
| `FramingLostFlag` | `EveryIntactFrameIsHandled` | one lost flag, and `rxLoop` pairs each closing flag with the next opening one |
| `NwkRepair` | `RepairIsUnderWay` | `repairRoute` marks the route, then asks for a discovery, which finds itself in progress and sends nothing; `src/ZigbeeNwk.cpp:254` says "we do a new route discovery" |
| `ZdoStartIndex` | `StartIndexIsTheOneAsked` | an IEEE address request is answered with its request type as start index (`src/ZigbeeZdo.cpp:146`), against its layout (`:133`) |

More disagreements show in the same models without a run of their own:

* Answering a ZDO request from the APS handler locks the APS mutex again (`src/ZigbeeAps.cpp:101`,
  `:47`); relaying a many-to-one request, and forwarding, lock the MAC mutex again; and a
  TX status takes MAC then NWK against every sender. `EveryDeadlockIsKnown` names these rings.
* `ZigbeeMac::stop` empties a callback between its test and its call; the empty
  `std::function` ends the process. `NullCallsNeedStop` says when.
* A neighbour heard, or entered, while a pruning round is under way is erased by it:
  the second half of `VictimsWereSilent`.
* A driver restarted in mid-frame loses the pairing of flags as after a lost flag, because
  `stop` does not close the port, as `include/platform/RawSpinelDriver.h:39` says. That is why
  `FlagsKept`, the premise of `IntactFramesAreHandled`, asks for no restart.
* A link status may list a neighbour entered after the count was read
  (`src/ZigbeeNwk.cpp:150`), so `LinkStatusIsLongEnough` is not an equality.
* The hook of ZCL and the association answer, as said above.

### Bounds

`MaxCalls = 3` allows a start with two further calls that overlap it and each
other, which is what the races need: a start, a stop, and a start or send
between them. One address is enough because a route is looked up under
one destination, and threads with different destinations interfere only through the
mutexes. Two application threads and the two of the stack make every ring of two
or three waiting threads possible. In `SpinelFraming` three frames show what
happens before, at and after a damaged one; the radio may run ahead of the driver by all of them.
In `NwkNeighbours` two neighbours let one be collected while the other is heard or
entered, which makes the map grow; ages are cut where no comparison changes any more, with the
longest round (`MaxLag`) and the longest call (`MaxDelay`) one tick. That a call of
`updateNeighbor` is shorter than the timeout of five minutes is an assumption
(`MaxDelay \in 0 .. Stale`). In `NwkFrames` the addresses and the data contain the byte that
starts a source route and the numbers of commands, so that a field read at a wrong place is
taken for one; routes of one and of two hops make a copy that mixes them too
short or too long; two destinations let a route change while a frame goes to the other.

`NwkFrames` hears many-to-one requests of radius 1 only and is never the node that has
to answer: the rx thread that relays, forwards or answers stops for ever (`ZohStack`).

In `SpinelLink` every frame goes alone, because what a line leaves in the buffer is
`SpinelFraming`'s subject, and one bit flips, which is what stuffing may turn into more and a
CRC must still notice. In `ZdoServer` three
additions let one endpoint be there, one be added and one replaced while a request is handled;
the count byte holds 12 values, so that a description of three clusters is cut and a shorter
one is not. In `ZclAttributes` six clusters hold three endpoints of two clusters, so that a first,
a shadowed and a last one can be told apart. In `SecureSending` two threads are as many as the
order of two frames needs, and a counter of three values wraps within four frames.

The stack runs, `SpinelFraming` and `SpinelLink` do not check TLC's deadlock: the application may
stop calling, the radio may stop sending, the findings above are deadlocks, and a
behaviour of `SpinelLink` ends with its call. All others do.

### Fairness

`ZohStack`: strong fairness of each thread's steps, because a mutex that keeps
becoming free is eventually had; none of calls and of bytes arriving, because
nothing makes the application call or the radio send; the receive buffer is finite,
so its frames run out (`RxBufferEmpty`). The fairness is only used by
the properties about returning and handling. `SpinelFraming`: weak
fairness of the rx thread, which reads what has arrived. `NwkNeighbours`: weak fairness of the
maintenance thread, which always wakes from its sleep; none of the rx thread, nor of time.

## The proofs

| Theorem | States |
| --- | --- |
| `ZohStackProofs!TypeCorrect` | `Spec => []TypeOK` |
| `ZohStackProofs!LocksAreDisciplined` | `Spec => []LockDiscipline` |
| `ZohStackProofs!DeadlocksAreKnown` | `Spec => []EveryDeadlockIsKnown` |
| `ZohStackProofs!LayersAlwaysAgree` | `Spec => []LayersAgree` |
| `ZohStackProofs!ClearedHandlersAreAlwaysLeft` | `Spec => []ClearedHandlersAreLeft` |
| `ZohStackProofs!TransmitsWhileRunning` | `Spec => []TransmitsOnlyWhileRunning` |
| `ZohStackProofs!EmptyCallbacksNeedStop` | `Spec => []NullCallsNeedStop` |
| `ZohStackProofs!QuietStacksNeverDeadlock` | `Quiet /\ Spec => []NoDeadlock` |
| `SpinelFramingProofs!FramingTypeCorrect` | `Spec => []TypeOK` |
| `SpinelFramingProofs!OneFrameIsEverHeld` | `Spec => []OneFrameIsHeld` |
| `SpinelFramingProofs!FramingRefinesChannel` | `Spec => ImplementsChannel` |
| `NwkProofs!NeighboursTypeCorrect` | `Spec => []TypeOK` |
| `NwkProofs!VictimsAreSilent` | `Spec => []VictimsWereSilent` |
| `NwkProofs!RoundsAreThorough` | `Spec => []RoundIsThorough` |
| `NwkProofs!LinkStatusIsAccepted` | `Spec => []LinkStatusIsLongEnough` |
| `NwkFramesProofs!FramesTypeCorrect` | `Spec => []TypeOK` |
| `NwkFramesProofs!RoutesAlwaysEnd` | `Spec => []RoutesEndAtTheirDestination` |
| `NwkFramesProofs!FramesAlwaysParseBack` | `Spec => []FrameParsesBack` |
| `NwkFramesProofs!DataAlwaysIndicated` | `Spec => []DataIsIndicated` |
| `NwkFramesProofs!CutFramesAlwaysHarmless` | `Spec => []CutFramesAreHarmless` |
| `NwkFramesProofs!RepairsEndByNewsOrOverlap` | `Spec => RepairEndsByNewsOrOverlap` |
| `BytesProofs!HeadersAlwaysLieInside` | `\A s \in Bytes : HeaderLiesInside(s)` |
| `BytesProofs!HeadersAlwaysReadBack` | `\A s \in Bytes : HeaderReadsBack(s)` |
| `BytesProofs!CrcSeesEveryFlip` | the CRC of `s` differs from that of `s` with any one bit flipped |
| `BytesProofs!EveryFrameArrives` | `\A s \in Bytes : Frames(HdlcEncode(s)) = {s}` |
| `BytesProofs!CutLinesAreDropped` | no first part of `HdlcEncode(s)` has frames |
| `BytesProofs!FlippedLinesAreDropped` | nor has `HdlcEncode(s)` with a flipped bit and the same `Controls` |
| `SpinelLinkProofs!LinkTyped` | `Spec => []TypeOK` |
| `SpinelLinkProofs!CommandsAlwaysArrive` | `Spec => []CommandsArriveAsGiven` |
| `SpinelLinkProofs!LinkHeadersSound` | `Spec => []HeadersAreSound` |
| `SpinelLinkProofs!DamageIsAlwaysNoticed` | `Spec => DamageIsNoticed` |
| `ZdoServerProofs!ServerTypeCorrect` | `Spec => []TypeOK` |
| `ZdoServerProofs!WholeRequestsAlwaysAnswered` | `Spec => []WholeRequestsAreAnswered` |
| `ZdoServerProofs!ResponsesAlwaysReadBack` | `Spec => []ResponsesReadBack` |
| `ZdoServerProofs!MatchesAlwaysRight` | `AsksForProfiles /\ Spec => []MatchesAreRight` |
| `ZclAttributesProofs!AttributesTypeCorrect` | `AttributesSpec => []AttributesTypeOK` |
| `ZclAttributesProofs!ClustersAreAStore` | `AttributesSpec => IsStore` |
| `ZclAttributesProofs!HandlersAlwaysStay` | `AttributesSpec => HandlersStay` |
| `NwkProofs!SendingTypeCorrect` | `SendingSpec => []SendingTypeOK` |
| `NwkProofs!CountersAreInOrder` | `SendingSpec => []CountersLeaveInOrder` |
| `NwkProofs!OneFrameIsLate` | `SendingSpec => []OneLateFrame` |

Each uses only the assumptions on constants of its module, and two have a
hypothesis that the runs' instances meet:

* `Quiet` says that the application starts, discovers many-to-one, repairs,
  configures and associates only, and that the radio hands up nothing for which the
  rx thread sends or locks upwards. Without it deadlocks are reachable: those
  `EveryDeadlockIsKnown` names. `StackQuiet` is its instance.
* `AsksForProfiles` says that no match request names profile 0. An entry that
  `operator[]` has just made has that profile, so a request for profile 0 would match
  an endpoint that is not described yet. Profile 0 is ZDP's own, which no endpoint but 0 has.

The assumptions type the constants, and three say more. `NwkFrames` takes the APS data that
are sent to be what a caller of `sendApsData` can give. `SpinelLink` takes the properties that are
set to be other than that of raw frames, which `sendSpinelSetProp` is never called with. `WholeAssumption` of `ZdoServer` says which
requests count as whole: those with exactly as many bytes as their handler looks at.

`ZohStack`: `LockInv` adds to `TypeOK` and `LockDiscipline` what the local
variables of a send must be for the lock it returns under to be the one it
holds (`ReturnOK`), the addresses routes are looked up under, and that a frame is at
hand while handlers run. It is needed because the label of a thread inside
`sendNwkFrame` does not say whether the APS mutex is held: the return address
does. The lock order theorem then follows without induction: in a ring of waiting threads
take one that waits for a mutex highest in the order APS, NWK, MAC; who holds it
waits for one lower, and who holds the MAC mutex and is neither joining nor the
rx thread does not wait.

`LifeInv` adds to it what a start or a stop that has come to a given place has done
(`StageOK`: the flags, the callbacks and the threads, place by place). At most one thread is
inside a start or a stop, because the APS mutex is held throughout, so all layers are at
that thread's place, or at `up` or `down` if there is none. What is known of a sender or of the rx
thread is then known of the places a stop may be at while it runs: the MAC mutex
keeps a stop before `macStop`. `QuietInv` adds that only broadcasts are sent and nothing by the rx thread;
every wait is then for a lock whose holder can go on.

`SpinelFraming`: the invariant says that bodies come out of the line in the
order they were written and at most once, and that every handled frame lies
behind `pos`. So what is handled next is later, which is a step of the channel.

`NwkNeighbours`: the properties of a finished loop are carried through it: an
entry not to be visited any more is a victim, was heard in time, or is being entered
(`Visited`); what is listed or to be listed is never less than the count
(`Announced`).

`NwkFrames`: `FramesInv` says of every route, in the table, on its way into it or copied out of it,
that it can be counted in a byte and, unless torn, ends where it should; and of a frame
that was sent, that it is what `BuildNwkFrame` makes of some route. For repairs it says that a thread which has
decided on a discovery of a destination now under repair is `overtaken`: it was
not so when the thread tested the state, and who made it so put the thread there. The rest is about frames and
not about steps: their layout is derived from `BytesProofs`, where a part of a frame "lies at" a
place (`LiesAt`), a concatenation keeps the places of its parts, and a field that lies at a
place is read there. So what the parser finds is what was written, for any length, and a
cut frame shows to each length check what is missing.

`ZdoServer`: `ZdoInv` carries a match request through its loop: while the table is left alone
the endpoints looked up are those not left to look up, and the matching ones among them are in the
list, once each (`MatchOK`). Entries of the table were given by the application or have just been
made (`TableOK`). That a handler's length check tells whole requests from cut ones is
`EnoughIsWhole`; of a match request the second count's place depends on the first, so the proof
first shows that a list which is there in a part is there at the same place in the whole.
While endpoints are added, what a lookup finds is made of at most an entry
and the descriptor being assigned; if only one descriptor was given for the endpoint,
each field is that descriptor's, or that of an empty entry, which matches nothing.

`ZclAttributes`: clusters keep the shape they were registered with (`Registered`), so where
all registrations agree on an attribute's rights the first cluster a read finds
is the one a write has changed. The first of a set of places exists because the natural numbers
are well-founded.

`SecureSending`: a frame that has its counter and is not yet with the MAC is between those that
have left and the counter (`HeldIsBetween`), which one thread at a time can be, because it
holds the NWK mutex. While a late frame is on its way, none has left late
(`LateIsFirst`), and afterwards every frame takes its counter under the new key.

`BytesProofs` has what `HeadersAreSound` of `SpinelLink` says, for every sequence of bytes. Each optional
part of the NWK header fits into what is left when its turn comes (`PartsFit`), so all of them
together fit; and a header is a row of parts of the frame, each of which
joins on to the one before it (`PartsAreJoined`).

The loops of the CRC and of byte stuffing are recursive functions, and what they compute for a frame of any
length is proved by a least counterexample: a set of numbers that is not empty has a least (`LeastOf`, from the
well-foundedness of the natural numbers). It gives first that a `Loop` is a run of its body
(`RunsExist`, `LoopIsRun`), then that what the body preserves or keeps related the loop does (`LoopType`,
`LoopsRelate`). With this:

* a round of the CRC is injective in the CRC before it, because the bit that is shifted out is
  read off the bit of weight 1 of the result, and so is a byte and a frame; two frames that differ in one bit
  have different CRCs after the byte with that bit and ever after (`CrcSeesEveryFlip`);
* what `Unstuff` has put together after the stuffing of a byte is what it had before it and that byte, so
  unstuffing inverts stuffing; and stuffing leaves no flag, so a line has two flags, one body and one
  frame (`EveryFrameArrives`). A line that was cut has one flag or none (`CutLinesAreDropped`);
* a flip that leaves flags and escapes inside the frame where they were flips the same bit of what is unstuffed:
  either one of the bytes the CRC is of, and their CRC is another, or one of the CRC's own
  (`FlippedLinesAreDropped`).

`SpinelLink`: `LinkInv` adds to `TypeOK` what a line carries at each place of a behaviour (`LineInv`): before the radio, while
it is intact, what `HdlcEncode` made of the call (`Written`); before the host that, with what the radio
measured (`Delivered`), or a frame the radio sends of its own. `CommandsArriveAsGiven` follows with
`EveryFrameArrives` at the radio and again at the host. `DamageIsNoticed` needs only that an intact
line is an encoded frame.

Only model-checked: everything about liveness (`CallsReturn`, `FramesAreHandled`, `MaintenanceGoesOn`,
`IntactFramesAreHandled`, `SilentNeighbourGoes`), which the prover does not treat. Every invariant
and every action property of the passing runs is a theorem.

## Not modelled, and the plan

One property may still be stated: an active route overwritten by a discovery that was decided on before it
became active (`src/ZigbeeNwk.cpp:65`), which `NwkFrames` has the steps of. The code does
not say that it should not happen.

Left out for good:

* the ZDO handlers from `src/ZigbeeZdo.cpp:407` on (leave, LQI, update, user and complex
  descriptors): `handleZdoFrame` calls none of them, nor does anything else;
* `sendDeviceAnnounce`, which writes a fixed frame and changes nothing;
* the stubs of `ZigbeeNwk` for route requests and replies;
* the hook that ZCL's constructor gives to APS, which is never called (see above);
* that `NwkFrameHeader` is declared both in `include/ZigbeeNwk.h` and in
  `include/ZigbeeNwkHeader.h`, with different members: no file of the library includes both;
* forwarding by content (`src/ZigbeeNwk.cpp:353`): the rx thread stops for ever on the way (`ZohStack`);
* the torn pointers and freed memory that a race in a standard container may
  also produce;
* what the terminal makes of the bytes: `SpinelLink` takes it to pass them as they are, though
  `src/platform/SerialPort.cpp:202` clears only flow control of the input flags, and a terminal
  that turns CR into NL would go on doing so;
* other terminal attributes, Windows overlapped I/O and log output, which are I/O; the
  cipher, a stub; the build files.
