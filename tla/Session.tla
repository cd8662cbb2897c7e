------------------------------- MODULE Session -------------------------------
(***************************************************************************)
(* What JavaScript may do with one source (src/crate/src/lib.rs,           *)
(* src/crate/src/session.rs and src/npm/src/session.ts): open it once and  *)
(* inspect it, make an attach XBE, convert it through that handle, or call *)
(* the standalone functions, which open it anew; then drive the session    *)
(* by hand or with the generator of the npm package.                       *)
(*                                                                         *)
(* What a session streams is cut into as many pieces as the source has     *)
(* files, and a header, piece 0, where the package has one.  How each      *)
(* target makes its bytes is the subject of its own module.                *)
(***************************************************************************)
EXTENDS StfsIdentity

CONSTANTS
  Refs,           \* formats a caller may pass, "unresolved" for none
  OptionsGiven,   \* the FormatOptions a caller may pass
  PlanUnits,      \* bound: calls of hashNextPart() a session needs
  MaxFailures     \* bound: reads that fail while streaming, misuses aside

ASSUME BoundsAssumption == PlanUnits \in Nat \ {0} /\ MaxFailures \in Nat

ASSUME OptionsAssumption == \A options \in OptionsGiven : options.ids \in [Ids -> STRING]

Faults == {"none", "walk", "exe", "thumbnail", "account"}
Vias == {"handle", "direct"}

VARIABLES
  source,      \* what the caller has
  ref,         \* the format the caller says it is of
  handle,      \* OpenedSource: "none", "image", "fs", "closed" or "consumed"
  last,        \* the last call: how, of what, the read that failed, the answer
  session,     \* ConversionSession
  units,       \* units hashed or sized so far
  cursor,      \* the next piece
  exhausted,   \* next_chunk() has said so
  failures,    \* reads that failed while streaming
  generator,   \* chunksFromSession(): "idle", "running", "waiting" for room,
               \* "ended" or "threw"
  delivered    \* the pieces JavaScript has received, in order

opening == <<handle, last, session>>
streaming == <<units, cursor, exhausted, failures, generator, delivered>>
vars == <<source, ref, opening, streaming>>

NoSession ==
  [ok |-> FALSE, target |-> None, plans |-> FALSE, files |-> <<>>, package |-> NoPackage]
NoCall ==
  [via |-> None, what |-> None, arg |-> None, fault |-> None, live |-> FALSE, answer |-> None]

NoHandle == [state |-> "none", probed |-> NotProbed]
Consumed == [state |-> "consumed", probed |-> NotProbed]

-----------------------------------------------------------------------------
(* Opening a session                                                         *)

IsImage(opened) == opened.state = "image"
IsOpen(opened) == opened.state \in {"image", "fs"}

\* FormatOptions: what is not given, as it is deserialised.  What has no
\* default, the name of ciso, cci and zar files, is given.
Defaults(target) ==
  [target |-> target, full |-> TRUE, split |-> FALSE, named |-> target # "xiso",
   contentType |-> None, displayName |-> None, titleId |-> None, key |-> None,
   ids |-> NoIds, transfer |-> NoTransfer]

Begun(target, plans, files, package) ==
  [ok |-> TRUE, target |-> target, plans |-> plans, files |-> files, package |-> package]

\* The tree of an image: the one probed before, or else walked now.
Walks(opened, fault) == opened.probed.ok \/ (source.walks /\ fault # "walk")

\* Mode Full rebuilds the image and has the library read it, probed or not.
Rebuilds(fault) == source.walks /\ fault # "walk"

\* A view of files is always laid out anew.
HasSectors(opened, full, fault) ==
  IsImage(opened) => IF full THEN Rebuilds(fault) ELSE Walks(opened, fault)

\* xiso_session_from_source(): a split image needs a name.
OpenXiso(opened, options, fault) ==
  IF (options.split => options.named) /\ HasSectors(opened, options.full, fault)
  THEN Begun("xiso", FALSE, source.files, NoPackage) ELSE NoSession

\* ciso_session_from_source() and cci_session_from_source()
OpenCompressed(opened, options, fault) ==
  IF HasSectors(opened, options.full, fault)
  THEN Begun(options.target, TRUE, source.files, NoPackage) ELSE NoSession

\* extracted_session_from_source() and zar_session_from_source()
OpenFiles(opened, options, fault) ==
  IF IsImage(opened) => Walks(opened, fault)
  THEN Begun(options.target, FALSE, source.files, NoPackage) ELSE NoSession

TitleInfo(opened, fault) ==
  IF IsImage(opened)
  THEN LET p == Probed(opened, source, fault)
       IN IF p.ok THEN [ok |-> TRUE, type |-> p.type, title |-> p.title] ELSE NoTitle
  ELSE FsTitle(source.files, fault)

\* resolve_god_content_type(): an installed game is what is signed.
GodType(key, type) == IF key = None THEN type ELSE "installedGame"

\* A field given has the length it must have: into_device_id(), ...
FieldsParse(options, fields) == \A id \in fields : options.ids[id] # "bad"

\* What the header of a GOD package says, signed or not.
GodPackage(options, info) ==
  [NoPackage EXCEPT !.magic = IF options.key = None THEN "LIVE" ELSE MAGIC_CON,
                    !.type = GodType(options.key, info.type), !.title = info.title,
                    !.name = Or(options.displayName, ListedName(info.title)),
                    !.ids["device_id"] = Or(options.ids["device_id"], Zeroed)]

OpenGod(opened, options, fault) ==
  LET info == TitleInfo(opened, fault)
      key == options.key
  IN IF \/ key = "bad" \/ ~FieldsParse(options, {"device_id"}) \/ ~info.ok
        \/ key # None /\ info.type # "gamesOnDemand"
        \/ ~HasSectors(opened, options.full, fault)
     THEN NoSession
     ELSE Begun("god", TRUE, source.files, GodPackage(options, info))

\* What is asked of stfs_session_from_source() before it opens anything.
Accepted(opened, options, fault) ==
  /\ options.key # "bad" /\ FieldsParse(options, Ids)
  /\ options.transfer.asked =>
       ~IsImage(opened) /\ Transferable(View(source), options.transfer, fault)

\* file_entries() probes an image again if the first probe has failed.
ListsFiles(opened, options, fault) ==
  \/ ~IsImage(opened)
  \/ Probed(opened, source, fault).ok
  \/ options.titleId = None /\ Probe(source, "none").ok

OpenStfs(opened, options, fault) ==
  LET info == IF options.titleId # None THEN NoTitle ELSE TitleInfo(opened, fault)
      original == Original(opened, source)
      known == KnownType(options.contentType, original, info)
  IN IF \/ ~Accepted(opened, options, fault)
        \/ TitleNeeded(options.titleId, known, info)
        \/ ~ListsFiles(opened, options, fault)
     THEN NoSession
     ELSE IF ~options.transfer.asked
     THEN Begun("stfs", options.key # None, source.files,
                Package(options, original, info, options.ids))
     ELSE LET moved == Transfer(source.files, options.transfer)
          IN Begun("stfs", options.key # None, moved.files,
                   Package(options, original, info,
                           [options.ids EXCEPT !["profile_id"] = moved.profile]))

\* session_inner_from_opened()
SessionAnswer(opened, options, fault) ==
  IF ~IsOpen(opened) THEN NoSession
  ELSE CASE options.target = "god" -> OpenGod(opened, options, fault)
         [] options.target = "stfs" -> OpenStfs(opened, options, fault)
         [] options.target = "xiso" -> OpenXiso(opened, options, fault)
         [] options.target \in {"ciso", "cci"} -> OpenCompressed(opened, options, fault)
         [] OTHER -> OpenFiles(opened, options, fault)

-----------------------------------------------------------------------------
(* The calls                                                                 *)

Answer(what, opened, arg, fault) ==
  IF what = "session" THEN SessionAnswer(opened, arg, fault)
  ELSE IF ~IsOpen(opened) THEN Threw
  ELSE IF what = "inspect" THEN InspectAnswer(opened, source, arg, fault)
  ELSE AttachAnswer(opened, source, fault)

Asked(via) == IF via = "handle" THEN handle ELSE Opened(source, ref)

\* A handle that is being used has been opened; only one session is made.
CanCall(via) == ~session.ok /\ (via = "handle" => handle.state \notin {"none", "closed"})

Called(via, what, arg, fault) ==
  last' = [via |-> via, what |-> what, arg |-> arg, fault |-> fault,
           live |-> Asked(via).state # "consumed",
           answer |-> Answer(what, Asked(via), arg, fault)]

KeptProbe(via, fault) ==
  handle' = IF via = "handle" THEN AfterProbing(handle, source, fault) ELSE handle

\* detectFormat() and detectDirFormat(): the caller goes by what they say.
Detect ==
  /\ handle.state = "none" /\ ~session.ok
  /\ ref' = Detected(source)
  /\ last' = NoCall
  /\ UNCHANGED <<source, handle, session, streaming>>

\* openSource()
OpenSource ==
  /\ handle.state = "none" /\ ~session.ok
  /\ handle' = Opened(source, ref)
  /\ last' = NoCall
  /\ UNCHANGED <<source, ref, session, streaming>>

\* OpenedSource.inspect() and inspectSource()
Inspect(via, thumbnail, fault) ==
  /\ CanCall(via)
  /\ Called(via, "inspect", thumbnail, fault)
  /\ KeptProbe(via, fault)
  /\ UNCHANGED <<source, ref, session, streaming>>

\* OpenedSource.generateAttachXbe() and generateAttachXbe()
GenerateAttachXbe(via, fault) ==
  /\ CanCall(via)
  /\ Called(via, "attach", None, fault)
  /\ KeptProbe(via, fault)
  /\ UNCHANGED <<source, ref, session, streaming>>

\* OpenedSource.openConversionSession() consumes the handle, also if it throws.
OpenConversionSession(via, options, fault) ==
  /\ CanCall(via)
  /\ Called(via, "session", options, fault)
  /\ session' = last'.answer
  /\ handle' = IF via = "handle" THEN Consumed ELSE handle
  /\ UNCHANGED <<source, ref, streaming>>

-----------------------------------------------------------------------------
(* The session                                                               *)

FilePieces(s) == [i \in DOMAIN s.files |-> i]

\* STFS begins with its header, and GOD ends with its own.
Pieces(s) ==
  CASE s.target = "stfs" -> <<0>> \o FilePieces(s)
    [] s.target = "god" -> FilePieces(s) \o <<0>>
    [] OTHER -> FilePieces(s)

Planned == session.plans => units = PlanUnits

AllStreamed == cursor > Len(Pieces(session))

\* The parts of a CCI image are known once it is sized.
PartsCut == IF Planned THEN Len(Pieces(session)) ELSE 0

\* Faulty: a CCI session asks only whether the parts it has are streamed.
IsDoneUnsized(s) ==
  CASE s.target = "stfs" -> exhausted
    [] s.target = "ciso" -> Planned /\ AllStreamed
    [] s.target = "cci" -> cursor > PartsCut
    [] OTHER -> AllStreamed

\* is_done()
IsDone(s) ==
  CASE s.target = "stfs" -> exhausted
    [] s.target = "ciso" -> Planned /\ AllStreamed
    [] s.target = "cci" -> Planned /\ cursor > PartsCut
    [] OTHER -> AllStreamed

\* A read that fails takes the block of an STFS package with it, and the
\* sectors a CISO session had in hand, if any.
MayLose == CASE session.target = "stfs" -> {TRUE}
             [] session.target = "ciso" -> BOOLEAN
             [] OTHER -> {FALSE}

\* hashNextPart()
HashNextPart ==
  /\ session.ok /\ ~Planned
  /\ units' = units + 1
  /\ UNCHANGED <<source, ref, opening, cursor, exhausted, failures, generator, delivered>>

\* next_chunk(): before planning is complete it throws and changes nothing.
Yields ==
  /\ Planned /\ ~AllStreamed
  /\ delivered' = Append(delivered, Pieces(session)[cursor])
  /\ cursor' = cursor + 1
  /\ UNCHANGED <<exhausted, failures>>

ReadFails ==
  /\ Planned /\ ~AllStreamed /\ failures < MaxFailures
  /\ Pieces(session)[cursor] # 0
  /\ failures' = failures + 1
  /\ \E loses \in MayLose : cursor' = IF loses THEN cursor + 1 ELSE cursor
  /\ UNCHANGED <<exhausted, delivered>>

TooEarly == ~Planned /\ UNCHANGED <<cursor, exhausted, failures, delivered>>

YieldsNothing ==
  /\ Planned /\ AllStreamed
  /\ exhausted' = TRUE
  /\ UNCHANGED <<cursor, failures, delivered>>

\* nextChunk(), called by hand, also while a generator is suspended.
NextChunk ==
  /\ session.ok
  /\ Yields \/ ReadFails \/ TooEarly \/ YieldsNothing
  /\ UNCHANGED <<source, ref, opening, units, generator>>

\* chunksFromSession(): a generator that threw cannot go on, a new one can.
StartGenerator ==
  /\ session.ok /\ generator \in {"idle", "threw"}
  /\ generator' = "running"
  /\ UNCHANGED <<source, ref, opening, units, cursor, exhausted, failures, delivered>>

\* Until there is room, others run: what isDone() said may be out of date.
WaitForRoom ==
  /\ generator = "running"
  /\ generator' = IF IsDone(session) THEN "ended" ELSE "waiting"
  /\ UNCHANGED <<source, ref, opening, units, cursor, exhausted, failures, delivered>>

GeneratorStep ==
  /\ generator = "waiting"
  /\ \/ Yields /\ generator' = "running"
     \/ YieldsNothing /\ generator' = "ended"
     \/ (ReadFails \/ TooEarly) /\ generator' = "threw"
  /\ UNCHANGED <<source, ref, opening, units>>

Init ==
  /\ source \in Sources /\ ref \in Refs
  /\ handle = NoHandle /\ last = NoCall /\ session = NoSession
  /\ units = 0 /\ cursor = 1 /\ exhausted = FALSE /\ failures = 0
  /\ generator = "idle" /\ delivered = <<>>

Next ==
  \/ Detect
  \/ OpenSource
  \/ \E via \in Vias, fault \in Faults :
       \/ \E thumbnail \in BOOLEAN : Inspect(via, thumbnail, fault)
       \/ GenerateAttachXbe(via, fault)
       \/ \E options \in OptionsGiven : OpenConversionSession(via, options, fault)
  \/ HashNextPart
  \/ NextChunk
  \/ StartGenerator
  \/ WaitForRoom
  \/ GeneratorStep

Spec == Init /\ [][Next]_vars

-----------------------------------------------------------------------------
(* Properties                                                                *)

\* What the call answers on a source just opened, with no read failing.
Fresh(call) == Answer(call.what, Opened(source, ref), call.arg, "none")

\* A package but for what it takes from the title.
Untitled(package, other) ==
  [package EXCEPT !.title = "0", !.type = other.type, !.name = other.name]

\* A title that could not be read, of content that does not need one.
WithoutTitle(answer, fresh) ==
  /\ last.fault \in {"walk", "exe"} /\ answer.ok
  /\ IF last.what = "session"
     THEN /\ answer.target = "stfs" /\ answer.package.title = "0"
          /\ answer = [fresh EXCEPT !.package = Untitled(@, answer.package)]
     ELSE answer.title = "0" /\ (fresh.ok => answer.type = fresh.type)

\* Whatever was asked of a handle before, and whichever reads failed then, it
\* answers as a source that is opened for the call; and a call in which a read
\* fails throws or gives the right answer.  The exception is content that may
\* do without an executable: a failed read counts as no executable there
\* (SourceInner::probed, OpenedSource, stfs/write.rs:722-738).
HandleIsTransparent ==
  last.live =>
    LET fresh == Fresh(last)
    IN IF last.fault = "none" THEN last.answer = fresh
       ELSE ~last.answer.ok \/ last.answer = fresh \/ WithoutTitle(last.answer, fresh)

TransferAsked == session.ok /\ last.arg.transfer.asked

\* A package made by a profile transfer names in its header the account that
\* is in it: that account has the gamertag and XUID asked for and is otherwise
\* the one read, with the key it had, and no other file changed.  The account
\* is read from the first file of that name in any case and put in the file
\* with exactly that name.  Without a transfer, every id is the option, else
\* the source's, else zero.
TransferIsConsistent ==
  session.target = "stfs" =>
    IF TransferAsked
    THEN LET i == FirstNamed(session.files, "Account")
             old == source.files[AccountIndex(source.files)].account
             new == session.files[i].account
             asked == last.arg.transfer
         IN /\ session.package.ids["profile_id"] = new.xuid
            /\ new.key = old.key
            /\ new.gamertag = (IF asked.gamertag = None THEN old.gamertag ELSE asked.gamertag)
            /\ new.xuid = (IF asked.xuid = None THEN old.xuid ELSE asked.xuid)
            /\ \A j \in DOMAIN source.files \ {i} : session.files[j] = source.files[j]
            /\ \A id \in Ids \ {"profile_id"} :
                 session.package.ids[id] \in {last.arg.ids[id], source.package.ids[id], Zeroed}
    ELSE /\ session.files = source.files
         /\ \A id \in Ids :
              session.package.ids[id] =
                IF last.arg.ids[id] # None THEN last.arg.ids[id]
                ELSE IF source.package.ids[id] # None THEN source.package.ids[id] ELSE Zeroed

\* A generator that ends has delivered every piece, in order, whatever calls
\* came before it; only the two writers that go on after a failed read can
\* leave a gap (chunksFromSession, ChunkSource::is_done).
GeneratorDeliversAll ==
  generator = "ended" =>
    \/ delivered = Pieces(session)
    \/ failures > 0 /\ session.target \in {"stfs", "ciso"}
=============================================================================
