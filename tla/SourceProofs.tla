---------------------------- MODULE SourceProofs ----------------------------
(***************************************************************************)
(* Proofs about what stands between the caller and the formats: Session,   *)
(* the handle, the conversion and the generator over it; and about the ZAR *)
(* archive, in which a source is packed whole and read as one.             *)
(*                                                                         *)
(* Session: for every source, every set of options and every order of      *)
(* calls, what a handle answers does not depend on what was asked of it    *)
(* before, a transferred profile is the one the header names, and a        *)
(* generator that ends has delivered everything. Its invariant, IInv, says *)
(* that a handle is the source just opened or keeps the probe in which no  *)
(* read failed (HandleOK), that a session is an answer of the one call     *)
(* that made it (SessionOK), and that what was delivered is all before the *)
(* cursor (StreamOK).                                                      *)
(*                                                                         *)
(* ZarWriter and ZarReader: for every listing, every block and chunk size  *)
(* and every read that throws and is repeated, the archive decodes to the  *)
(* source and its directory to the listing. The invariant, ZarInv, says    *)
(* which bytes are in the buffer and in the blocks (InputInv, BlocksInv),  *)
(* where in the archive everything lies (ArchiveInv, RecordsInv,           *)
(* SectionsInv), and that an open reader keeps what the sections hold. The *)
(* directory is a matter of operators on a listing: the path tree has a    *)
(* node for each path and one for each file (IsPathTree, FilesHeld), the   *)
(* entries are its nodes breadth first (IsBreadthFirst, IsTreeOf), and a   *)
(* reader that has taken x of them has listed just the files among those   *)
(* (Listing).                                                              *)
(***************************************************************************)
EXTENDS Session, ZarReader, CommonLemmas, SequenceTheorems

-----------------------------------------------------------------------------
(* Session: the inductive invariant                                          *)

\* An opened source that keeps nothing, or what a probe without a fault found.
Faithful(opened) ==
  \/ opened = Opened(source, ref)
  \/ /\ opened = [state |-> "image", probed |-> Probe(source, "none")]
     /\ Opened(source, ref).state = "image"
     /\ Probe(source, "none").ok

HandleOK ==
  /\ source \in Sources
  /\ handle = NoHandle \/ handle = Consumed \/ Faithful(handle)

SessionOK ==
  /\ session = NoSession \/ session.ok
  /\ session.ok => DOMAIN session.files = DOMAIN source.files

\* A session that has not begun, and one that goes on only after a failed
\* read, aside, exactly the pieces before the cursor have been delivered.
StreamOK ==
  /\ failures \in Nat
  /\ ~session.ok => cursor = 1 /\ ~exhausted /\ generator = "idle"
  /\ ~session.ok => failures = 0 /\ delivered = <<>>
  /\ session.ok => cursor \in 1 .. Len(Pieces(session)) + 1
  /\ exhausted => AllStreamed
  /\ generator = "ended" => AllStreamed
  /\ \/ failures > 0 /\ session.target \in {"stfs", "ciso"}
     \/ delivered = Before(Pieces(session), cursor)

IInv == HandleOK /\ HandleIsTransparent /\ SessionOK /\ TransferIsConsistent /\ StreamOK

-----------------------------------------------------------------------------
(* What a read that fails changes                                            *)

\* The title of a failed read is no title; any other fault is not met here.
LEMMA TitleFacts ==
  ASSUME NEW listing, NEW fault
  PROVE  /\ ImageTitle(listing, fault) = IF fault = "exe" THEN NoTitle
                                       ELSE ImageTitle(listing, "none")
         /\ FsTitle(listing, fault) = IF fault = "exe" THEN NoTitle
                                    ELSE FsTitle(listing, "none")
BY DEF ImageTitle, FsTitle, ReadsLaunch

\* A title has one of the two types an executable gives, or none.
Titled(info) == info.ok /\ info.type \in {"gamesOnDemand", "xboxOriginal"}

LEMMA TitleTypes ==
  ASSUME NEW listing, NEW fault
  PROVE  /\ ImageTitle(listing, fault) = NoTitle \/ Titled(ImageTitle(listing, fault))
         /\ FsTitle(listing, fault) = NoTitle \/ Titled(FsTitle(listing, fault))
<1>1. ASSUME NEW file, NEW type \in {"gamesOnDemand", "xboxOriginal"}
      PROVE  TitleOf(file, type) = NoTitle \/ Titled(TitleOf(file, type))
  BY DEF TitleOf, Titled
<1>2. ImageTitle(listing, fault) = NoTitle \/ Titled(ImageTitle(listing, fault)) BY <1>1 DEF ImageTitle
<1>3. FsTitle(listing, fault) = NoTitle \/ Titled(FsTitle(listing, fault)) BY <1>1 DEF FsTitle
<1> QED BY <1>2, <1>3

\* A probe fails with the walk or the executable, and is right otherwise.
LEMMA ProbeFacts ==
  ASSUME NEW s, NEW fault
  PROVE  /\ Probe(s, fault) = IF fault \in {"walk", "exe"} THEN NotProbed
                              ELSE Probe(s, "none")
         /\ Probe(s, fault) = NotProbed \/ (Titled(Probe(s, fault)) /\ s.walks)
         /\ ~NotProbed.ok
         /\ NotProbed.type = None /\ NotProbed.title = None
<1>1. ~NotProbed.ok /\ ~NoTitle.ok /\ NotProbed.type = None /\ NotProbed.title = None
  BY DEF NotProbed, NoTitle
<1>2. Probe(s, fault) = IF fault \in {"walk", "exe"} THEN NotProbed ELSE Probe(s, "none")
  <2>1. CASE fault = "exe"
    <3>1. ImageTitle(s.files, fault) = NoTitle BY <2>1, TitleFacts
    <3> QED BY <1>1, <2>1, <3>1 DEF Probe
  <2>2. CASE fault = "walk" BY <2>2 DEF Probe
  <2>3. CASE fault \notin {"walk", "exe"}
    <3>1. ImageTitle(s.files, fault) = ImageTitle(s.files, "none") BY <2>3, TitleFacts
    <3> QED BY <2>3, <3>1 DEF Probe
  <2> QED BY <2>1, <2>2, <2>3
<1>3. Probe(s, fault) = NotProbed \/ (Titled(Probe(s, fault)) /\ s.walks)
  <2>1. ImageTitle(s.files, fault) = NoTitle \/ Titled(ImageTitle(s.files, fault)) BY TitleTypes
  <2> QED BY <1>1, <2>1 DEF Probe, Titled
<1> QED BY <1>1, <1>2, <1>3

\* What is probed through such a handle: the right probe, or none because the
\* walk or the executable could not be read.
LEMMA ProbedFacts ==
  ASSUME NEW opened, Faithful(opened), NEW fault
  PROVE  /\ \/ Probed(opened, source, fault) = Probe(source, "none")
            \/ fault \in {"walk", "exe"} /\ Probed(opened, source, fault) = NotProbed
         /\ Probed(opened, source, "none") = Probe(source, "none")
         /\ Probed(Opened(source, ref), source, fault) = Probe(source, fault)
         /\ opened.state = Opened(source, ref).state
         /\ opened.probed.ok => source.walks
         /\ opened.state # "image" => opened = Opened(source, ref)
<1>1. Opened(source, ref).probed = NotProbed BY DEF Opened, NotOpen
<1>2. CASE opened = Opened(source, ref) BY <1>1, <1>2, ProbeFacts DEF Probed
<1>3. CASE /\ opened = [state |-> "image", probed |-> Probe(source, "none")]
           /\ Opened(source, ref).state = "image"
           /\ Probe(source, "none").ok
  <2>1. opened.probed = Probe(source, "none") /\ opened.state = "image" BY <1>3
  <2> QED BY <1>1, <1>3, <2>1, ProbeFacts DEF Probed
<1> QED BY <1>2, <1>3 DEF Faithful

-----------------------------------------------------------------------------
(* The answers of a handle are those of a source just opened                 *)

\* What a title is found to be through a handle.
LEMMA InfoFacts ==
  ASSUME NEW opened, Faithful(opened), NEW fault
  PROVE  LET info == TitleInfo(opened, fault)
             right == TitleInfo(Opened(source, ref), "none")
         IN /\ fault = "none" => info = right
            /\ info = right \/ (fault \in {"walk", "exe"} /\ info = NoTitle)
            /\ right = NoTitle \/ Titled(right)
            /\ ~NoTitle.ok
<1> DEFINE right == Opened(source, ref)
<1>1. opened.state = right.state /\ ~NotProbed.ok /\ ~NoTitle.ok BY ProbedFacts, ProbeFacts DEF NoTitle
<1>2. CASE opened.state = "image"
  <2> DEFINE Info(p) == IF p.ok THEN [ok |-> TRUE, type |-> p.type, title |-> p.title] ELSE NoTitle
  <2>1. /\ TitleInfo(opened, fault) = Info(Probed(opened, source, fault))
        /\ TitleInfo(right, "none") = Info(Probe(source, "none"))
    BY <1>1, <1>2, ProbedFacts DEF TitleInfo, IsImage, Faithful
  <2>2. Info(NotProbed) = NoTitle BY <1>1
  <2>3. Info(Probe(source, "none")) = NoTitle \/ Titled(Info(Probe(source, "none")))
    BY <2>2, ProbeFacts DEF Titled
  <2> HIDE DEF Info
  <2> QED BY <1>1, <2>1, <2>2, <2>3, ProbedFacts
<1>3. CASE opened.state # "image" BY <1>1, <1>3, TitleFacts, TitleTypes DEF TitleInfo, IsImage
<1> QED BY <1>2, <1>3

\* What of an image can be read through a handle could be without a failure.
LEMMA SectorFacts ==
  ASSUME NEW opened, Faithful(opened), NEW full, NEW fault
  PROVE  LET right == Opened(source, ref)
         IN /\ HasSectors(opened, full, fault) => HasSectors(right, full, "none")
            /\ HasSectors(opened, full, "none") <=> HasSectors(right, full, "none")
            /\ IsImage(opened) <=> IsImage(right)
            /\ IsOpen(opened) <=> IsOpen(right)
            /\ Walks(opened, fault) => Walks(right, "none")
            /\ Walks(opened, "none") <=> Walks(right, "none")
<1>1. Opened(source, ref).probed = NotProbed BY DEF Opened, NotOpen
<1>2. opened.state = Opened(source, ref).state /\ (opened.probed.ok => source.walks) BY ProbedFacts
<1>3. IsImage(opened) <=> IsImage(Opened(source, ref)) BY <1>2 DEF IsImage
<1>4. IsOpen(opened) <=> IsOpen(Opened(source, ref)) BY <1>2 DEF IsOpen
<1>5. /\ Walks(opened, fault) => Walks(Opened(source, ref), "none")
      /\ Walks(opened, "none") <=> Walks(Opened(source, ref), "none")
  BY <1>1, <1>2, ProbeFacts DEF Walks
<1> QED BY <1>3, <1>4, <1>5 DEF HasSectors, Rebuilds
\* An answer found through a handle while a read may have failed.
FitAnswer(what, fault, reply, fresh) ==
  \/ ~reply.ok
  \/ reply = fresh
  \/ /\ fault \in {"walk", "exe"} /\ reply.ok
     /\ IF what = "session"
        THEN /\ reply.target = "stfs" /\ reply.package.title = "0"
             /\ reply = [fresh EXCEPT !.package = Untitled(@, reply.package)]
        ELSE reply.title = "0" /\ (fresh.ok => reply.type = fresh.type)

\* The XISO, CISO, CCI, extracted and ZAR sessions ask for sectors or files.
LEMMA PlainAnswers ==
  ASSUME NEW opened, Faithful(opened), NEW options, NEW fault
  PROVE  LET right == Opened(source, ref)
         IN /\ \/ ~OpenXiso(opened, options, fault).ok
               \/ OpenXiso(opened, options, fault) = OpenXiso(right, options, "none")
            /\ \/ ~OpenCompressed(opened, options, fault).ok
               \/ OpenCompressed(opened, options, fault) = OpenCompressed(right, options, "none")
            /\ \/ ~OpenFiles(opened, options, fault).ok
               \/ OpenFiles(opened, options, fault) = OpenFiles(right, options, "none")
            /\ OpenXiso(opened, options, "none") = OpenXiso(right, options, "none")
            /\ OpenCompressed(opened, options, "none") = OpenCompressed(right, options, "none")
            /\ OpenFiles(opened, options, "none") = OpenFiles(right, options, "none")
<1> DEFINE right == Opened(source, ref)
<1>1. ~NoSession.ok BY DEF NoSession
<1>2. /\ HasSectors(opened, options.full, fault) => HasSectors(right, options.full, "none")
      /\ HasSectors(opened, options.full, "none") <=> HasSectors(right, options.full, "none")
      /\ IsImage(opened) <=> IsImage(right)
      /\ Walks(opened, fault) => Walks(right, "none")
      /\ Walks(opened, "none") <=> Walks(right, "none")
  BY SectorFacts
<1> HIDE DEF right
<1>3. /\ \/ ~OpenXiso(opened, options, fault).ok
         \/ OpenXiso(opened, options, fault) = OpenXiso(right, options, "none")
      /\ OpenXiso(opened, options, "none") = OpenXiso(right, options, "none")
  BY <1>1, <1>2 DEF OpenXiso
<1>4. /\ \/ ~OpenCompressed(opened, options, fault).ok
         \/ OpenCompressed(opened, options, fault) = OpenCompressed(right, options, "none")
      /\ OpenCompressed(opened, options, "none") = OpenCompressed(right, options, "none")
  BY <1>1, <1>2 DEF OpenCompressed
<1>5. /\ \/ ~OpenFiles(opened, options, fault).ok
         \/ OpenFiles(opened, options, fault) = OpenFiles(right, options, "none")
      /\ OpenFiles(opened, options, "none") = OpenFiles(right, options, "none")
  BY <1>1, <1>2 DEF OpenFiles
<1> QED BY <1>3, <1>4, <1>5 DEF right

\* A GOD package is not made without a title.
LEMMA GodAnswers ==
  ASSUME NEW opened, Faithful(opened), NEW options, NEW fault
  PROVE  LET right == Opened(source, ref)
         IN /\ \/ ~OpenGod(opened, options, fault).ok
               \/ OpenGod(opened, options, fault) = OpenGod(right, options, "none")
            /\ OpenGod(opened, options, "none") = OpenGod(right, options, "none")
<1> DEFINE right == Opened(source, ref)
           Refuses(o, f) == LET info == TitleInfo(o, f) IN
             \/ options.key = "bad" \/ ~FieldsParse(options, {"device_id"}) \/ ~info.ok
             \/ options.key # None /\ info.type # "gamesOnDemand"
             \/ ~HasSectors(o, options.full, f)
<1>1. ~NoSession.ok BY DEF NoSession
<1>2. /\ HasSectors(opened, options.full, fault) => HasSectors(right, options.full, "none")
      /\ HasSectors(opened, options.full, "none") <=> HasSectors(right, options.full, "none")
  BY SectorFacts
<1>3. \/ TitleInfo(opened, fault) = TitleInfo(right, "none")
      \/ ~TitleInfo(opened, fault).ok
  BY InfoFacts
<1>4. TitleInfo(opened, "none") = TitleInfo(right, "none") BY InfoFacts
<1> HIDE DEF right
<1>5. \A o, f : OpenGod(o, options, f) = IF Refuses(o, f) THEN NoSession
    ELSE Begun("god", TRUE, source.files, GodPackage(options, TitleInfo(o, f)))
  BY DEF OpenGod
<1>6. \/ ~OpenGod(opened, options, fault).ok
      \/ OpenGod(opened, options, fault) = OpenGod(right, options, "none")
  <2>1. CASE ~TitleInfo(opened, fault).ok BY <1>1, <1>5, <2>1
  <2>2. CASE TitleInfo(opened, fault) = TitleInfo(right, "none")
    <3>1. Refuses(opened, fault) \/ ~Refuses(right, "none") BY <1>2, <2>2
    <3> HIDE DEF Refuses
    <3>2. CASE Refuses(opened, fault) BY <1>1, <1>5, <3>2
    <3>3. CASE ~Refuses(opened, fault) BY <1>5, <2>2, <3>1, <3>3
    <3> QED BY <3>2, <3>3
  <2> QED BY <1>3, <2>1, <2>2
<1>7. OpenGod(opened, options, "none") = OpenGod(right, options, "none") BY <1>2, <1>4, <1>5
<1> QED BY <1>6, <1>7 DEF right

\* What an STFS session is begun with, once it is decided that it is.
StfsBegun(original, info, options) ==
  IF ~options.transfer.asked THEN Begun("stfs", options.key # None, source.files,
             Package(options, original, info, options.ids))
  ELSE Begun("stfs", options.key # None, Transfer(source.files, options.transfer).files,
             Package(options, original, info, [options.ids EXCEPT
                        !["profile_id"] = Transfer(source.files, options.transfer).profile]))

\* The header of a package that is made.
HeaderOf(type, title, name, ids, metadata, licenses) ==
  [magic |-> MAGIC_CON, type |-> type, title |-> title, name |-> name, ids |-> ids,
   metadata |-> metadata, licenses |-> licenses]

\* A package whose title could not be read, if it may do without one, differs
\* from the right one in what is taken from the title alone.
LEMMA UntitledPackage ==
  ASSUME NEW options, NEW original, NEW info, NEW ids, Titled(info), options.titleId = None,
         KnownType(options.contentType, original, NoTitle) \notin Bootable
  PROVE  LET p == Package(options, original, NoTitle, ids)
             q == Package(options, original, info, ids)
         IN /\ p.title = "0"
            /\ p = Untitled(q, p)
<1> DEFINE p == Package(options, original, NoTitle, ids)
           q == Package(options, original, info, ids)
<1>1. p.title = "0" BY DEF Package, ResolvedTitle, Or, NoTitle, None
<1>2. KeptMetadata(original, KnownType(options.contentType, original, NoTitle))
      = KeptMetadata(original, KnownType(options.contentType, original, info))
  <2> DEFINE k == KnownType(options.contentType, original, NoTitle)
             l == KnownType(options.contentType, original, info)
  <2>1. k = l \/ (k = None /\ l \in {"gamesOnDemand", "xboxOriginal"})
    BY DEF KnownType, Or, NoTitle, Titled
  <2> HIDE DEF k, l
  <2>2. KeptMetadata(original, k) = KeptMetadata(original, l) BY <2>1 DEF KeptMetadata, None
  <2> QED BY <2>2 DEF k, l
<1>3. p = Untitled(q, p)
  <2> DEFINE metadata == KeptMetadata(original, KnownType(options.contentType, original, info))
             resolved == ResolvedIds(ids, original)
             licenses == KeptLicenses(original, options.key)
  <2>1. ASSUME NEW r, NEW type, NEW title, NEW name, NEW new,
               r = HeaderOf(type, title, name, resolved, metadata, licenses)
        PROVE  Untitled(r, new)
               = HeaderOf(new.type, "0", new.name, resolved, metadata, licenses)
    <3> HIDE DEF metadata, resolved, licenses
    <3> DEFINE H(y, z, n) == HeaderOf(y, z, n, resolved, metadata, licenses)
    <3>1. \A x, y, z, n, value : x = H(y, z, n) => [x EXCEPT !.title = value] = H(y, value, n)
      BY DEF HeaderOf
    <3>2. \A x, y, z, n, value : x = H(y, z, n) => [x EXCEPT !.type = value] = H(value, z, n)
      BY DEF HeaderOf
    <3>3. \A x, y, z, n, value : x = H(y, z, n) => [x EXCEPT !.name = value] = H(y, z, value)
      BY DEF HeaderOf
    <3> DEFINE one == [r EXCEPT !.title = "0"]
               two == [one EXCEPT !.type = new.type]
    <3>4. Untitled(r, new) = [two EXCEPT !.name = new.name] BY DEF Untitled
    <3>5. r = H(type, title, name) BY <2>1
    <3> HIDE DEF H
    <3>6. one = H(type, "0", name) BY <3>1, <3>5
    <3> HIDE DEF one
    <3>7. two = H(new.type, "0", name) BY <3>2, <3>6
    <3> HIDE DEF two
    <3>8. [two EXCEPT !.name = new.name] = H(new.type, "0", new.name) BY <3>3, <3>7
    <3> QED BY <3>4, <3>8 DEF H
  <2>2. p = HeaderOf(p.type, "0", p.name, resolved, metadata, licenses)
    BY <1>1, <1>2 DEF Package, HeaderOf
  <2>3. q = HeaderOf(q.type, q.title, q.name, resolved, metadata, licenses) BY DEF Package, HeaderOf
  <2> HIDE DEF p, q, metadata, resolved, licenses
  <2>4. Untitled(q, p) = HeaderOf(p.type, "0", p.name, resolved, metadata, licenses) BY <2>1, <2>3
  <2> QED BY <2>2, <2>4
<1> QED BY <1>1, <1>3

\* An STFS package may be made without a title that could not be read.
LEMMA StfsAnswers ==
  ASSUME NEW opened, Faithful(opened), NEW options, NEW fault
  PROVE  LET right == Opened(source, ref)
         IN /\ FitAnswer("session", fault, OpenStfs(opened, options, fault),
                          OpenStfs(right, options, "none"))
            /\ OpenStfs(opened, options, "none") = OpenStfs(right, options, "none")
<1> DEFINE right == Opened(source, ref)
           Info(o, f) == IF options.titleId # None THEN NoTitle ELSE TitleInfo(o, f)
           original == Original(opened, source)
           Refuses(o, f) == \/ ~Accepted(o, options, f)
                            \/ TitleNeeded(options.titleId,
                                  KnownType(options.contentType, original, Info(o, f)), Info(o, f))
                            \/ ~ListsFiles(o, options, f)
<1>1. ~NoSession.ok BY DEF NoSession
<1>2. opened.state = right.state BY ProbedFacts
<1>3. Original(right, source) = original BY <1>2 DEF Original
<1>4. /\ Accepted(opened, options, fault) => Accepted(right, options, "none")
      /\ Accepted(opened, options, "none") <=> Accepted(right, options, "none")
  BY <1>2 DEF Accepted, IsImage, Transferable
<1>5. /\ ListsFiles(opened, options, fault) => ListsFiles(right, options, "none")
      /\ ListsFiles(opened, options, "none") <=> ListsFiles(right, options, "none")
  BY <1>2, ProbedFacts, ProbeFacts DEF ListsFiles, IsImage
<1>6. Info(opened, "none") = Info(right, "none") BY InfoFacts
<1>7. \/ Info(opened, fault) = Info(right, "none")
      \/ /\ options.titleId = None /\ fault \in {"walk", "exe"}
         /\ Info(opened, fault) = NoTitle /\ Titled(Info(right, "none"))
  BY InfoFacts
<1>8. /\ OpenStfs(opened, options, fault) = IF Refuses(opened, fault) THEN NoSession
           ELSE StfsBegun(original, Info(opened, fault), options)
      /\ OpenStfs(opened, options, "none") = IF Refuses(opened, "none") THEN NoSession
           ELSE StfsBegun(original, Info(opened, "none"), options)
      /\ OpenStfs(right, options, "none") = IF Refuses(right, "none") THEN NoSession
           ELSE StfsBegun(original, Info(right, "none"), options)
  BY <1>3 DEF OpenStfs, StfsBegun
<1>9. OpenStfs(opened, options, "none") = OpenStfs(right, options, "none") BY <1>4, <1>5, <1>6, <1>8
<1>10. FitAnswer("session", fault, OpenStfs(opened, options, fault),
    OpenStfs(right, options, "none"))
  <2>1. CASE Refuses(opened, fault) BY <1>1, <1>8, <2>1 DEF FitAnswer
  <2>2. CASE ~Refuses(opened, fault) /\ Info(opened, fault) = Info(right, "none")
    <3>1. ~Refuses(right, "none") BY <1>4, <1>5, <2>2
    <3> QED BY <1>8, <2>2, <3>1 DEF FitAnswer
  <2>3. CASE /\ ~Refuses(opened, fault)
             /\ options.titleId = None /\ fault \in {"walk", "exe"}
             /\ Info(opened, fault) = NoTitle /\ Titled(Info(right, "none"))
    <3> DEFINE info == Info(right, "none")
    <3>1. ~Refuses(right, "none") BY <1>4, <1>5, <2>3 DEF TitleNeeded, Titled
    <3>2. KnownType(options.contentType, original, NoTitle) \notin Bootable
      BY <2>3, InfoFacts DEF TitleNeeded
    <3>3. \A ids : LET p == Package(options, original, NoTitle, ids)
                       q == Package(options, original, info, ids)
                   IN /\ p.title = "0"
                      /\ p = Untitled(q, p)
      BY <2>3, <3>2, UntitledPackage
    <3> HIDE DEF info, original
    <3>4. /\ StfsBegun(original, NoTitle, options).ok
          /\ StfsBegun(original, NoTitle, options).target = "stfs"
          /\ StfsBegun(original, NoTitle, options).package.title = "0"
          /\ StfsBegun(original, NoTitle, options)
             = [StfsBegun(original, info, options) EXCEPT
                  !.package = Untitled(@, StfsBegun(original, NoTitle, options).package)]
      <4>1. ASSUME NEW r, NEW plans, NEW listing, NEW package, NEW new,
                   r = Begun("stfs", plans, listing, package)
            PROVE  /\ r.ok /\ r.target = "stfs" /\ r.package = package
                   /\ [r EXCEPT !.package = new] = Begun("stfs", plans, listing, new)
        <5>1. r.ok /\ r.target = "stfs" /\ r.package = package BY <4>1 DEF Begun
        <5>2. \A ok, x : x = [ok |-> ok, target |-> "stfs", plans |-> plans, files |-> listing,
                          package |-> package]
            => [x EXCEPT !.package = new]
               = [ok |-> ok, target |-> "stfs", plans |-> plans, files |-> listing,
                  package |-> new]
          OBVIOUS
        <5> QED BY <4>1, <5>1, <5>2 DEF Begun
      <4>2. PICK plans, listing, ids :
          /\ StfsBegun(original, NoTitle, options)
             = Begun("stfs", plans, listing, Package(options, original, NoTitle, ids))
          /\ StfsBegun(original, info, options)
             = Begun("stfs", plans, listing, Package(options, original, info, ids))
        BY DEF StfsBegun
      <4>3. Package(options, original, NoTitle, ids)
            = Untitled(Package(options, original, info, ids), Package(options, original, NoTitle, ids))
        BY <3>3
      <4>4. /\ StfsBegun(original, NoTitle, options).package = Package(options, original, NoTitle, ids)
            /\ StfsBegun(original, info, options).package = Package(options, original, info, ids)
        BY <4>1, <4>2
      <4> QED BY <3>3, <4>1, <4>2, <4>3, <4>4
    <3>5. /\ OpenStfs(opened, options, fault) = StfsBegun(original, NoTitle, options)
          /\ OpenStfs(right, options, "none") = StfsBegun(original, info, options)
      BY <1>8, <2>3, <3>1 DEF info
    <3> QED BY <2>3, <3>4, <3>5 DEF FitAnswer
  <2> QED BY <1>7, <2>1, <2>2, <2>3
<1> QED BY <1>9, <1>10
\* Loose files are inspected with the executable, or without one by type.
LEMMA InspectAnswers ==
  ASSUME NEW opened, Faithful(opened), NEW thumbnail, NEW fault
  PROVE  LET right == InspectAnswer(Opened(source, ref), source, thumbnail, "none")
         IN /\ FitAnswer("inspect", fault,
                          InspectAnswer(opened, source, thumbnail, fault), right)
            /\ InspectAnswer(opened, source, thumbnail, "none") = right
<1>1. ~Threw.ok BY DEF Threw
<1>2. opened.state = Opened(source, ref).state BY ProbedFacts
<1>3. CASE opened.state = "image"
  <2>1. \A o, f : o.state = "image" => InspectAnswer(o, source, thumbnail, f)
      = InspectImage(source, Probed(o, source, f), thumbnail, f)
    BY DEF InspectAnswer
  <2>2. Faithful(Opened(source, ref)) BY DEF Faithful
  <2>3. InspectAnswer(Opened(source, ref), source, thumbnail, "none")
        = InspectImage(source, Probe(source, "none"), thumbnail, "none")
    BY <1>2, <1>3, <2>1, ProbedFacts
  <2>4. InspectAnswer(opened, source, thumbnail, "none")
        = InspectImage(source, Probe(source, "none"), thumbnail, "none")
    BY <1>3, <2>1, ProbedFacts
  <2>5. InspectAnswer(opened, source, thumbnail, fault)
        = InspectImage(source, Probed(opened, source, fault), thumbnail, fault)
    BY <1>3, <2>1
  <2>6. CASE Probed(opened, source, fault) = Probe(source, "none")
    BY <1>1, <2>3, <2>4, <2>5, <2>6 DEF InspectImage, FitAnswer
  <2>7. CASE Probed(opened, source, fault) = NotProbed
    BY <1>1, <2>3, <2>4, <2>5, <2>7, ProbeFacts DEF InspectImage, FitAnswer
  <2> QED BY <2>6, <2>7, ProbedFacts
<1>4. CASE opened.state # "image"
  <2>1. \A f : /\ InspectAnswer(opened, source, thumbnail, f) = InspectFs(source, f)
               /\ InspectAnswer(Opened(source, ref), source, thumbnail, f) = InspectFs(source, f)
    BY <1>2, <1>4 DEF InspectAnswer
  <2>2. FitAnswer("inspect", fault, InspectFs(source, fault), InspectFs(source, "none"))
    <3>1. CASE fault # "exe"
      <4>1. /\ FsTitle(source.files, fault) = FsTitle(source.files, "none")
            /\ ReadsLaunch(source.files, fault) = ReadsLaunch(source.files, "none")
        BY <3>1, TitleFacts DEF ReadsLaunch
      <4> QED BY <4>1 DEF InspectFs, FitAnswer
    <3>2. CASE fault = "exe"
      <4> DEFINE type == DeclaredType(source)
      <4>1. ~ReadsLaunch(source.files, fault) BY <3>2 DEF ReadsLaunch
      <4>2. InspectFs(source, fault) = IF type = None \/ type \in Bootable THEN Threw
                                       ELSE Answered(type, "0")
        BY <4>1 DEF InspectFs
      <4>3. CASE type = None \/ type \in Bootable BY <1>1, <4>2, <4>3 DEF FitAnswer
      <4>4. CASE ~(type = None \/ type \in Bootable)
        <5> DEFINE fresh == InspectFs(source, "none")
        <5>1. \A title : /\ Answered(type, title).ok
                         /\ Answered(type, title).type = type
                         /\ Answered(type, title).title = title
          BY DEF Answered
        <5>2. fresh.ok => fresh.type = type
          <6>1. \A t : Or(type, t) = type BY <4>4 DEF Or
          <6>2. fresh = Threw \/ \E title : fresh = Answered(type, title)
            <7>1. CASE ReadsLaunch(source.files, "none") /\ FsTitle(source.files, "none").ok
              <8>1. fresh = Answered(Or(type, FsTitle(source.files, "none").type),
                  FsTitle(source.files, "none").title)
                BY <7>1 DEF InspectFs
              <8> HIDE DEF fresh, type
              <8> QED BY <6>1, <8>1
            <7>2. CASE ~(ReadsLaunch(source.files, "none") /\ FsTitle(source.files, "none").ok)
              <8>1. fresh = Threw \/ fresh = Answered(type, "0") BY <7>2 DEF InspectFs
              <8> HIDE DEF fresh, type
              <8> QED BY <8>1
            <7> QED BY <7>1, <7>2
          <6> HIDE DEF fresh, type
          <6> QED BY <1>1, <5>1, <6>2
        <5>3. InspectFs(source, fault) = Answered(type, "0") BY <4>2, <4>4
        <5> HIDE DEF fresh, type
        <5>4. FitAnswer("inspect", fault, InspectFs(source, fault), fresh)
          BY <3>2, <5>1, <5>2, <5>3 DEF FitAnswer
        <5> QED BY <5>4 DEF fresh
      <4> QED BY <4>3, <4>4
    <3> QED BY <3>1, <3>2
  <2> QED BY <2>1, <2>2
<1> QED BY <1>3, <1>4

\* An attach XBE is made of the executable, or not at all.
LEMMA AttachAnswers ==
  ASSUME NEW opened, Faithful(opened), NEW fault
  PROVE  LET right == AttachAnswer(Opened(source, ref), source, "none")
         IN /\ \/ ~AttachAnswer(opened, source, fault).ok
               \/ AttachAnswer(opened, source, fault) = right
            /\ AttachAnswer(opened, source, "none") = right
<1>1. ~Threw.ok BY DEF Threw
<1>2. opened.state = Opened(source, ref).state BY ProbedFacts
<1>3. CASE opened.state = "image"
  <2>1. \A o, f : o.state = "image" =>
      AttachAnswer(o, source, f) = AttachImage(Probed(o, source, f), f)
    BY DEF AttachAnswer
  <2>2. AttachAnswer(Opened(source, ref), source, "none")
        = AttachImage(Probe(source, "none"), "none")
    BY <1>2, <1>3, <2>1, ProbedFacts
  <2>3. AttachAnswer(opened, source, "none") = AttachImage(Probe(source, "none"), "none")
    BY <1>3, <2>1, ProbedFacts
  <2>4. AttachAnswer(opened, source, fault) = AttachImage(Probed(opened, source, fault), fault)
    BY <1>3, <2>1
  <2>5. CASE fault = "exe" BY <1>1, <2>2, <2>3, <2>4, <2>5 DEF AttachImage
  <2>6. CASE fault # "exe" /\ Probed(opened, source, fault) = Probe(source, "none")
    BY <2>2, <2>3, <2>4, <2>6 DEF AttachImage
  <2>7. CASE Probed(opened, source, fault) = NotProbed
    BY <1>1, <2>2, <2>3, <2>4, <2>7, ProbeFacts DEF AttachImage
  <2> QED BY <2>5, <2>6, <2>7, ProbedFacts
<1>4. CASE opened.state # "image"
  <2>1. \A f : /\ AttachAnswer(opened, source, f) = AttachFs(source, f)
               /\ AttachAnswer(Opened(source, ref), source, f) = AttachFs(source, f)
    BY <1>2, <1>4 DEF AttachAnswer
  <2>2. CASE fault # "exe" BY <2>1, <2>2 DEF AttachFs, ReadsLaunch
  <2>3. CASE fault = "exe" BY <1>1, <2>1, <2>3 DEF AttachFs, ReadsLaunch
  <2> QED BY <2>2, <2>3
<1> QED BY <1>3, <1>4

Whats == {"session", "inspect", "attach"}

\* Every call through a handle that is faithful is answered acceptably, and
\* like that of a source just opened if no read fails.
LEMMA Answers ==
  ASSUME NEW opened, Faithful(opened), NEW what \in Whats, NEW arg, NEW fault
  PROVE  LET right == Answer(what, Opened(source, ref), arg, "none")
         IN /\ FitAnswer(what, fault, Answer(what, opened, arg, fault), right)
            /\ Answer(what, opened, arg, "none") = right
<1> DEFINE fresh == Opened(source, ref)
<1>1. IsOpen(opened) <=> IsOpen(fresh) BY SectorFacts
<1>2. ~Threw.ok /\ ~NoSession.ok BY DEF Threw, NoSession
<1>3. CASE what = "session"
  <2>1. /\ FitAnswer("session", fault, SessionAnswer(opened, arg, fault),
                      SessionAnswer(fresh, arg, "none"))
        /\ SessionAnswer(opened, arg, "none") = SessionAnswer(fresh, arg, "none")
    <3>1. CASE ~IsOpen(opened) BY <1>1, <1>2, <3>1 DEF SessionAnswer, FitAnswer
    <3>2. CASE IsOpen(opened) /\ arg.target = "god"
      <4>1. \A o, f : IsOpen(o) => SessionAnswer(o, arg, f) = OpenGod(o, arg, f) BY <3>2 DEF SessionAnswer
      <4> QED BY <1>1, <3>2, <4>1, GodAnswers DEF FitAnswer
    <3>3. CASE IsOpen(opened) /\ arg.target = "stfs"
      <4>1. \A o, f : IsOpen(o) => SessionAnswer(o, arg, f) = OpenStfs(o, arg, f)
        BY <3>3 DEF SessionAnswer
      <4> QED BY <1>1, <3>3, <4>1, StfsAnswers
    <3>4. CASE IsOpen(opened) /\ arg.target = "xiso"
      <4>1. \A o, f : IsOpen(o) => SessionAnswer(o, arg, f) = OpenXiso(o, arg, f)
        BY <3>4 DEF SessionAnswer
      <4> QED BY <1>1, <3>4, <4>1, PlainAnswers DEF FitAnswer
    <3>5. CASE IsOpen(opened) /\ arg.target \in {"ciso", "cci"}
      <4>1. \A o, f : IsOpen(o) => SessionAnswer(o, arg, f) = OpenCompressed(o, arg, f)
        BY <3>5 DEF SessionAnswer
      <4> QED BY <1>1, <3>5, <4>1, PlainAnswers DEF FitAnswer
    <3>6. CASE IsOpen(opened) /\ arg.target \notin {"god", "stfs", "xiso", "ciso", "cci"}
      <4>1. \A o, f : IsOpen(o) => SessionAnswer(o, arg, f) = OpenFiles(o, arg, f)
        BY <3>6 DEF SessionAnswer
      <4> QED BY <1>1, <3>6, <4>1, PlainAnswers DEF FitAnswer
    <3> QED BY <3>1, <3>2, <3>3, <3>4, <3>5, <3>6
  <2>2. \A o, f : Answer(what, o, arg, f) = SessionAnswer(o, arg, f) BY <1>3 DEF Answer
  <2> QED BY <1>3, <2>1, <2>2
<1>4. CASE what # "session" /\ ~IsOpen(opened)
  <2>1. \A o, f : ~IsOpen(o) => Answer(what, o, arg, f) = Threw BY <1>4 DEF Answer
  <2> QED BY <1>1, <1>2, <1>4, <2>1 DEF FitAnswer
<1>5. CASE what = "inspect" /\ IsOpen(opened)
  <2>1. \A o, f : IsOpen(o) => Answer(what, o, arg, f) = InspectAnswer(o, source, arg, f)
    BY <1>5 DEF Answer
  <2> QED BY <1>1, <1>5, <2>1, InspectAnswers
<1>6. CASE what = "attach" /\ IsOpen(opened)
  <2>1. \A o, f : IsOpen(o) => Answer(what, o, arg, f) = AttachAnswer(o, source, f) BY <1>6 DEF Answer
  <2> QED BY <1>1, <1>6, <2>1, AttachAnswers DEF FitAnswer
<1> QED BY <1>3, <1>4, <1>5, <1>6 DEF Whats
-----------------------------------------------------------------------------
(* What a session is begun with                                              *)

LEMMA FirstIndex ==
  ASSUME NEW listing \in Seq(File), NEW S \in SUBSET DOMAIN listing, S # {}
  PROVE  Min(S) \in S /\ Min(S) # 0
<1>1. S \in SUBSET Int /\ \A x \in S : 1 <= x OBVIOUS
<1> QED BY <1>1, IntMin

\* The account of a profile that is transferred: read from the file that is
\* first in any case of its name, put in the first file of exactly that name.
LEMMA TransferFacts ==
  ASSUME NEW listing \in Seq(File), NEW transfer, NEW fault,
         Transferable(listing, transfer, fault)
  PROVE  LET i == FirstNamed(listing, "Account")
             old == listing[AccountIndex(listing)].account
             moved == Transfer(listing, transfer)
             new == moved.files[i].account
         IN /\ i \in DOMAIN listing /\ FirstNamed(moved.files, "Account") = i
            /\ DOMAIN moved.files = DOMAIN listing
            /\ moved.profile = new.xuid
            /\ new.key = old.key
            /\ new.gamertag = Or(transfer.gamertag, old.gamertag)
            /\ new.xuid = Or(transfer.xuid, old.xuid) /\ new.xuid # None
            /\ \A j \in DOMAIN listing \ {i} : moved.files[j] = listing[j]
<1> DEFINE i == FirstNamed(listing, "Account")
           a == AccountIndex(listing)
           old == listing[a].account
           new == Mutate(old, transfer)
           moved == [listing EXCEPT ![i].account = new]
<1>1. i \in DOMAIN listing /\ listing[i].name = "Account"
  <2> DEFINE S == {k \in DOMAIN listing : listing[k].name = "Account"}
  <2>1. S # {} /\ i = Min(S) BY DEF Transferable, FirstNamed
  <2>2. S \in SUBSET DOMAIN listing OBVIOUS
  <2> HIDE DEF S, i
  <2>3. i \in S BY <2>1, <2>2, FirstIndex
  <2> QED BY <2>3 DEF S
<1>2. a \in DOMAIN listing
  <2> DEFINE S == Named(listing, "account")
  <2>1. S # {} /\ a = Min(S) BY DEF Transferable, AccountIndex
  <2>2. S \in SUBSET DOMAIN listing BY DEF Named
  <2> HIDE DEF S, a
  <2> QED BY <2>1, <2>2, FirstIndex
<1>3. \A k \in DOMAIN listing : listing[k] \in File OBVIOUS
<1>4. old \in [key : STRING, gamertag : STRING, xuid : STRING] /\ old.xuid # None
  <2>1. old \in Account BY <1>2, <1>3 DEF File
  <2>2. old.key # None BY DEF Transferable, Parses, None
  <2> HIDE DEF old
  <2> QED BY <2>1, <2>2 DEF Account, NoAccount
<1>5. /\ Transfer(listing, transfer).files = moved
      /\ Transfer(listing, transfer).profile = new.xuid
  BY DEF Transfer
<1> HIDE DEF i, a, old
<1>6. /\ new.key = old.key
      /\ new.gamertag = Or(transfer.gamertag, old.gamertag)
      /\ new.xuid = Or(transfer.xuid, old.xuid) /\ new.xuid # None
  BY <1>4 DEF Mutate, Or
<1> HIDE DEF new
<1>7. /\ DOMAIN moved = DOMAIN listing
      /\ \A j \in DOMAIN listing \ {i} : moved[j] = listing[j]
      /\ moved[i] = [listing[i] EXCEPT !.account = new]
  BY <1>1
<1> HIDE DEF moved
<1>8. moved[i].account = new /\ moved[i].name = "Account" BY <1>1, <1>3, <1>7 DEF File
<1>9. FirstNamed(moved, "Account") = i
  <2>1. {k \in DOMAIN moved : moved[k].name = "Account"}
        = {k \in DOMAIN listing : listing[k].name = "Account"}
    BY <1>1, <1>7, <1>8
  <2> QED BY <2>1 DEF FirstNamed, i
<1> QED BY <1>1, <1>5, <1>6, <1>7, <1>8, <1>9 DEF i, a, old

\* TransferIsConsistent, of the session an answer is.
Consistent(reply, options) ==
  reply.target = "stfs" => IF options.transfer.asked
    THEN LET i == FirstNamed(reply.files, "Account")
             old == source.files[AccountIndex(source.files)].account
             new == reply.files[i].account
             asked == options.transfer
         IN /\ reply.package.ids["profile_id"] = new.xuid
            /\ new.key = old.key
            /\ new.gamertag = (IF asked.gamertag = None THEN old.gamertag ELSE asked.gamertag)
            /\ new.xuid = (IF asked.xuid = None THEN old.xuid ELSE asked.xuid)
            /\ \A j \in DOMAIN source.files \ {i} : reply.files[j] = source.files[j]
            /\ \A id \in Ids \ {"profile_id"} :
                 reply.package.ids[id] \in {options.ids[id], source.package.ids[id], Zeroed}
    ELSE /\ reply.files = source.files
         /\ \A id \in Ids : reply.package.ids[id] =
                IF options.ids[id] # None THEN options.ids[id]
                ELSE IF source.package.ids[id] # None THEN source.package.ids[id] ELSE Zeroed

\* The header read off a source that is opened has the ids of its package.
LEMMA OriginalIds ==
  ASSUME source \in Sources, NEW opened, opened.state = Opened(source, ref).state
  PROVE  Original(opened, source).ids = source.package.ids
<1>1. source.package \in Header /\ (source.format # "stfs" => source.package = NoPackage)
  BY HeaderAssumption
<1>2. CASE opened.state = "image"
  <2>1. source.format # "stfs" BY <1>2 DEF Opened, NotOpen, CanOpen, Images
  <2> QED BY <1>1, <1>2, <2>1 DEF Original
<1>3. CASE opened.state # "image" /\ source.format = "stfs"
  <2>1. Original(opened, source) = HeaderRead(source.package) BY <1>3 DEF Original, StfsHeader
  <2>2. HeaderRead(source.package).ids = source.package.ids BY <1>1 DEF HeaderRead, Header
  <2> QED BY <2>1, <2>2
<1>4. CASE opened.state # "image" /\ source.format # "stfs" BY <1>1, <1>4 DEF Original, StfsHeader
<1> QED BY <1>2, <1>3, <1>4

\* The package of an STFS session names the account and the ids it should.
LEMMA StfsConsistent ==
  ASSUME source \in Sources, NEW opened, opened.state = Opened(source, ref).state,
         NEW options \in OptionsGiven, NEW fault, OpenStfs(opened, options, fault) # NoSession
  PROVE  LET reply == OpenStfs(opened, options, fault)
         IN /\ reply.ok /\ reply.target = "stfs"
            /\ DOMAIN reply.files = DOMAIN source.files
            /\ Consistent(reply, options)
<1> DEFINE reply == OpenStfs(opened, options, fault)
           original == Original(opened, source)
           info == IF options.titleId # None THEN NoTitle ELSE TitleInfo(opened, fault)
           transfer == options.transfer
           moved == Transfer(source.files, transfer)
<1>1. Accepted(opened, options, fault) BY DEF OpenStfs
<1>2. reply = StfsBegun(original, info, options) BY DEF OpenStfs, StfsBegun
<1>3. original.ids = source.package.ids BY OriginalIds
<1>4. \A t, i, overrides : Package(options, t, i, overrides).ids = ResolvedIds(overrides, t)
  BY DEF Package
<1>5. \A plans, listing, package :
    LET s == Begun("stfs", plans, listing, package)
    IN s.ok /\ s.target = "stfs" /\ s.files = listing /\ s.package = package
  BY DEF Begun
<1>6. \A overrides : \A id \in Ids :
    ResolvedIds(overrides, original)[id] = IF overrides[id] # None THEN overrides[id]
      ELSE IF source.package.ids[id] # None THEN source.package.ids[id] ELSE Zeroed
  BY <1>3 DEF ResolvedIds, Or
<1>7. CASE ~transfer.asked
  <2>1. /\ reply.ok /\ reply.target = "stfs" /\ reply.files = source.files
        /\ reply.package.ids = ResolvedIds(options.ids, original)
    BY <1>2, <1>4, <1>5, <1>7 DEF StfsBegun
  <2> HIDE DEF reply, original
  <2>2. Consistent(reply, options) BY <1>6, <1>7, <2>1 DEF Consistent
  <2> QED BY <2>1, <2>2 DEF reply
<1>8. CASE transfer.asked
  <2> DEFINE overrides == [options.ids EXCEPT !["profile_id"] = moved.profile]
  <2>1. /\ reply.ok /\ reply.target = "stfs" /\ reply.files = moved.files
        /\ reply.package.ids = ResolvedIds(overrides, original)
    BY <1>2, <1>4, <1>5, <1>8 DEF StfsBegun
  <2>2. Transferable(source.files, transfer, fault) /\ source.files \in Seq(File)
    BY <1>1, <1>8, SourceAssumption DEF Accepted, View
  <2>3. /\ overrides["profile_id"] = moved.profile
        /\ \A id \in Ids \ {"profile_id"} : overrides[id] = options.ids[id]
    BY OptionsAssumption DEF Ids
  <2> HIDE DEF moved, reply, original, overrides
  <2>4. \A id \in Ids \ {"profile_id"} :
      reply.package.ids[id] \in {options.ids[id], source.package.ids[id], Zeroed}
    BY <1>6, <2>1, <2>3 DEF Ids
  <2>5. reply.package.ids["profile_id"] = moved.profile
    <3>1. moved.profile # None BY <2>2, TransferFacts DEF Or, moved
    <3> QED BY <1>6, <2>1, <2>3, <3>1 DEF Ids
  <2>6. LET i == FirstNamed(moved.files, "Account")
            old == source.files[AccountIndex(source.files)].account
            new == moved.files[i].account
        IN /\ moved.profile = new.xuid /\ new.key = old.key
           /\ new.gamertag = Or(transfer.gamertag, old.gamertag)
           /\ new.xuid = Or(transfer.xuid, old.xuid)
           /\ \A j \in DOMAIN source.files \ {i} : moved.files[j] = source.files[j]
           /\ DOMAIN moved.files = DOMAIN source.files
    BY <2>2, TransferFacts DEF moved
  <2>7. Consistent(reply, options) BY <1>8, <2>1, <2>4, <2>5, <2>6 DEF Consistent, Or
  <2> QED BY <2>1, <2>6, <2>7 DEF reply
<1> QED BY <1>7, <1>8
\* Every answer is no session or a session that has the files of the source.
LEMMA SessionBegins ==
  ASSUME source \in Sources, NEW opened,
         ~IsOpen(opened) \/ opened.state = Opened(source, ref).state,
         NEW options \in OptionsGiven, NEW fault
  PROVE  LET reply == SessionAnswer(opened, options, fault)
         IN /\ reply = NoSession \/ reply.ok
            /\ reply.ok => DOMAIN reply.files = DOMAIN source.files
            /\ Consistent(reply, options)
<1> DEFINE reply == SessionAnswer(opened, options, fault)
<1>1. ~NoSession.ok /\ NoSession.target # "stfs" BY DEF NoSession, None
<1>2. CASE reply = NoSession BY <1>1, <1>2 DEF Consistent
<1>3. CASE reply # NoSession /\ options.target = "stfs"
  <2>1. IsOpen(opened) /\ reply = OpenStfs(opened, options, fault) BY <1>3 DEF SessionAnswer
  <2>2. opened.state = Opened(source, ref).state BY <2>1
  <2> QED BY <1>3, <2>1, <2>2, StfsConsistent
<1>4. CASE reply # NoSession /\ options.target # "stfs"
  <2>1. \A target, plans, package :
      LET s == Begun(target, plans, source.files, package)
      IN s.ok /\ s.target = target /\ s.files = source.files
    BY DEF Begun
  <2>2. CASE options.target = "god"
    <3>1. reply = OpenGod(opened, options, fault) BY <1>4, <2>2 DEF SessionAnswer
    <3>2. reply = Begun("god", TRUE, source.files, GodPackage(options, TitleInfo(opened, fault)))
      BY <1>4, <3>1 DEF OpenGod
    <3> HIDE DEF reply
    <3>3. reply.ok /\ reply.target = "god" /\ reply.files = source.files BY <3>2 DEF Begun
    <3>4. Consistent(reply, options) BY <3>3 DEF Consistent
    <3> QED BY <3>3, <3>4 DEF reply
  <2>3. CASE options.target # "god"
    <3>1. \E target, plans : /\ reply = Begun(target, plans, source.files, NoPackage)
                             /\ target # "stfs"
      BY <1>4, <2>3 DEF SessionAnswer, OpenXiso, OpenCompressed, OpenFiles
    <3> HIDE DEF reply
    <3> QED BY <2>1, <3>1 DEF Consistent, reply
  <2> QED BY <2>2, <2>3
<1> QED BY <1>2, <1>3, <1>4

\* The answers depend on the source and the format alone.
LEMMA SameAnswers ==
  ASSUME UNCHANGED <<source, ref>>
  PROVE  \A what, o, arg, f : Answer(what, o, arg, f)' = Answer(what, o, arg, f)
<1>1. \A o, f : Walks(o, f)' = Walks(o, f) BY DEF Walks
<1>2. \A f : Rebuilds(f)' = Rebuilds(f) BY DEF Rebuilds
<1>3. \A o, full, f : HasSectors(o, full, f)' = HasSectors(o, full, f) BY <1>1, <1>2 DEF HasSectors
<1>4. \A o, f : TitleInfo(o, f)' = TitleInfo(o, f) BY DEF TitleInfo
<1>5. \A o, options, f : Accepted(o, options, f)' = Accepted(o, options, f) BY DEF Accepted
<1>6. \A o, options, f : ListsFiles(o, options, f)' = ListsFiles(o, options, f) BY DEF ListsFiles
<1>7. \A o, options, f : OpenXiso(o, options, f)' = OpenXiso(o, options, f) BY <1>3 DEF OpenXiso
<1>8. \A o, options, f : OpenCompressed(o, options, f)' = OpenCompressed(o, options, f)
  BY <1>3 DEF OpenCompressed
<1>9. \A o, options, f : OpenFiles(o, options, f)' = OpenFiles(o, options, f) BY <1>1 DEF OpenFiles
<1>10. \A o, options, f : OpenGod(o, options, f)' = OpenGod(o, options, f) BY <1>3, <1>4 DEF OpenGod
<1>11. \A o, options, f : OpenStfs(o, options, f)' = OpenStfs(o, options, f)
  BY <1>4, <1>5, <1>6 DEF OpenStfs
<1>12. \A o, options, f : SessionAnswer(o, options, f)' = SessionAnswer(o, options, f)
  BY <1>7, <1>8, <1>9, <1>10, <1>11 DEF SessionAnswer
<1> QED BY <1>12 DEF Answer
-----------------------------------------------------------------------------
(* The calls                                                                 *)

\* A call that is answered by a handle that is faithful, or by a source that
\* is opened for it, leaves a transparent answer.
LEMMA CallTransparent ==
  ASSUME HandleOK, UNCHANGED <<source, ref>>,
         NEW via \in Vias, NEW what \in Whats, NEW arg, NEW fault,
         CanCall(via), Called(via, what, arg, fault)
  PROVE  HandleIsTransparent'
<1> DEFINE reply == Answer(what, Asked(via), arg, fault)
           fresh == Answer(what, Opened(source, ref), arg, "none")
<1>1. /\ last'.what = what /\ last'.arg = arg /\ last'.fault = fault
      /\ last'.answer = reply /\ last'.live = (Asked(via).state # "consumed")
  BY DEF Called
<1>2. CASE Asked(via).state = "consumed" BY <1>1, <1>2 DEF HandleIsTransparent
<1>3. CASE Asked(via).state # "consumed"
  <2>1. Faithful(Asked(via)) BY <1>3 DEF Asked, HandleOK, CanCall, NoHandle, Consumed, Faithful
  <2>2. FitAnswer(what, fault, reply, fresh) /\ (fault = "none" => reply = fresh) BY <2>1, Answers
  <2>3. Fresh(last)' = fresh BY <1>1, SameAnswers DEF Fresh
  <2> HIDE DEF reply, fresh
  <2> QED BY <1>1, <2>2, <2>3 DEF HandleIsTransparent, FitAnswer, WithoutTitle
<1> QED BY <1>2, <1>3

\* What a handle keeps of a probe is right.
LEMMA ProbeKept ==
  ASSUME HandleOK, UNCHANGED <<source, ref>>, NEW via \in Vias, NEW fault,
         CanCall(via), KeptProbe(via, fault)
  PROVE  HandleOK'
<1>1. CASE via # "handle" \/ handle.state # "image"
  <2>1. handle' = handle BY <1>1 DEF KeptProbe, AfterProbing
  <2> QED BY <2>1 DEF HandleOK, Faithful
<1>2. CASE via = "handle" /\ handle.state = "image"
  <2>1. Faithful(handle) BY <1>2 DEF HandleOK, NoHandle, Consumed
  <2>2. handle' = [handle EXCEPT !.probed = Probed(handle, source, fault)]
    BY <1>2 DEF KeptProbe, AfterProbing
  <2>3. handle = [state |-> "image", probed |-> handle.probed] BY <1>2, <2>1 DEF Faithful, Opened, NotOpen
  <2>4. handle' = [state |-> "image", probed |-> Probed(handle, source, fault)] BY <2>2, <2>3
  <2>5. Opened(source, ref) = [state |-> "image", probed |-> NotProbed]
    BY <1>2, <2>1, ProbedFacts DEF Opened, NotOpen
  <2>6. Faithful(handle')
    <3>1. \/ Probed(handle, source, fault) = NotProbed
          \/ Probed(handle, source, fault) = Probe(source, "none")
      BY <2>1, ProbedFacts
    <3>2. Probe(source, "none") = NotProbed \/ Probe(source, "none").ok BY ProbeFacts DEF Titled
    <3>3. CASE Probed(handle, source, fault) = NotProbed BY <2>4, <2>5, <3>3 DEF Faithful
    <3>4. CASE /\ Probed(handle, source, fault) = Probe(source, "none")
               /\ Probe(source, "none").ok
      BY <2>4, <2>5, <3>4 DEF Faithful
    <3> QED BY <3>1, <3>2, <3>3, <3>4
  <2> QED BY <2>6 DEF HandleOK, Faithful
<1> QED BY <1>1, <1>2

\* A source that is opened, and a handle that is consumed.
LEMMA OtherHandles ==
  ASSUME HandleOK
  PROVE  /\ UNCHANGED <<source, ref>> /\ (handle' = Consumed \/ handle' = handle) => HandleOK'
         /\ UNCHANGED <<source, ref>> /\ handle' = Opened(source, ref) => HandleOK'
         /\ UNCHANGED <<source, handle>> /\ handle.state = "none" => HandleOK'
<1>1. UNCHANGED <<source, ref>> /\ (handle' = Consumed \/ handle' = handle) => HandleOK'
  BY DEF HandleOK, Faithful
<1>2. UNCHANGED <<source, ref>> /\ handle' = Opened(source, ref) => HandleOK' BY DEF HandleOK, Faithful
<1>3. UNCHANGED <<source, handle>> /\ handle.state = "none" => HandleOK'
  BY DEF HandleOK, Faithful, Opened, NotOpen, Consumed
<1> QED BY <1>1, <1>2, <1>3
-----------------------------------------------------------------------------
(* The stream                                                                *)

LEMMA PiecesAreASequence ==
  ASSUME source \in Sources, NEW s, DOMAIN s.files = DOMAIN source.files
  PROVE  Pieces(s) \in Seq(Nat)
<1>1. source.files \in Seq(File) BY SourceAssumption
<1>2. PICK n \in Nat : DOMAIN s.files = 1 .. n BY <1>1
<1>3. FilePieces(s) \in Seq(Nat) BY <1>2 DEF FilePieces
<1>4. <<0>> \o FilePieces(s) \in Seq(Nat) /\ FilePieces(s) \o <<0>> \in Seq(Nat) BY <1>3
<1> QED BY <1>3, <1>4 DEF Pieces

\* The parts of the invariant that the stream does not touch.
Opening == HandleOK /\ HandleIsTransparent /\ SessionOK /\ TransferIsConsistent

LEMMA OpeningKept ==
  ASSUME Opening, UNCHANGED <<source, ref, opening>>
  PROVE  Opening'
<1>1. HandleOK' BY DEF Opening, opening, HandleOK, Faithful
<1>2. HandleIsTransparent'
  <2>1. Fresh(last)' = Fresh(last) BY SameAnswers DEF Fresh, opening
  <2> QED BY <2>1 DEF Opening, opening, HandleIsTransparent, WithoutTitle
<1>3. SessionOK' BY DEF Opening, opening, SessionOK
<1>4. TransferIsConsistent' BY DEF Opening, opening, TransferIsConsistent, TransferAsked
<1> QED BY <1>1, <1>2, <1>3, <1>4 DEF Opening

\* What a session streams does not change.
LEMMA StreamFrame ==
  ASSUME UNCHANGED session
  PROVE  Pieces(session)' = Pieces(session)
BY DEF Pieces, FilePieces

\* Each outcome of next_chunk() keeps what was delivered in step.
LEMMA ChunkKept ==
  ASSUME source \in Sources, SessionOK, StreamOK, session.ok, UNCHANGED session,
         Yields \/ ReadFails \/ TooEarly \/ YieldsNothing
  PROVE  /\ failures' \in Nat
         /\ cursor' \in 1 .. Len(Pieces(session)) + 1
         /\ exhausted' => cursor' > Len(Pieces(session))
         /\ AllStreamed => cursor' > Len(Pieces(session))
         /\ \/ failures' > 0 /\ session.target \in {"stfs", "ciso"}
            \/ delivered' = Before(Pieces(session), cursor')
<1> DEFINE pieces == Pieces(session)
<1>1. pieces \in Seq(Nat) BY PiecesAreASequence DEF SessionOK
<1>2. Len(pieces) \in Nat /\ cursor \in 1 .. Len(pieces) + 1 /\ failures \in Nat BY <1>1 DEF StreamOK
<1>3. exhausted => cursor > Len(pieces) BY DEF StreamOK, AllStreamed
<1>4. \/ failures > 0 /\ session.target \in {"stfs", "ciso"}
      \/ delivered = Before(pieces, cursor)
  BY DEF StreamOK
<1>5. CASE Yields
  <2>1. cursor \in 1 .. Len(pieces) /\ cursor' = cursor + 1 /\ ~exhausted
    BY <1>2, <1>3, <1>5 DEF Yields, AllStreamed
  <2>2. delivered' = Append(delivered, pieces[cursor]) /\ UNCHANGED <<exhausted, failures>>
    BY <1>5 DEF Yields
  <2>3. Append(Before(pieces, cursor), pieces[cursor]) = Before(pieces, cursor + 1)
    BY <1>1, <2>1, BeforeGrows
  <2>4. ~AllStreamed BY <1>5 DEF Yields
  <2> HIDE DEF pieces
  <2> QED BY <1>2, <1>4, <2>1, <2>2, <2>3, <2>4 DEF pieces
<1>6. CASE ReadFails
  <2>1. PICK loses \in MayLose : cursor' = IF loses THEN cursor + 1 ELSE cursor BY <1>6 DEF ReadFails
  <2>2. loses => session.target \in {"stfs", "ciso"} BY <2>1 DEF MayLose
  <2>3. failures' = failures + 1 /\ UNCHANGED <<exhausted, delivered>> /\ ~AllStreamed
    BY <1>6 DEF ReadFails
  <2>4. cursor \in 1 .. Len(pieces) /\ ~exhausted BY <1>2, <1>3, <2>3 DEF AllStreamed
  <2> HIDE DEF pieces
  <2>5. CASE loses BY <1>2, <2>1, <2>2, <2>3, <2>4, <2>5 DEF pieces
  <2>6. CASE ~loses BY <1>2, <1>4, <2>1, <2>2, <2>3, <2>4, <2>6 DEF pieces
  <2> QED BY <2>5, <2>6
<1>7. CASE TooEarly BY <1>2, <1>3, <1>4, <1>7 DEF TooEarly, AllStreamed
<1>8. CASE YieldsNothing BY <1>2, <1>3, <1>4, <1>8 DEF YieldsNothing, AllStreamed
<1> QED BY <1>5, <1>6, <1>7, <1>8

\* is_done() says so only of a session that has streamed everything.
LEMMA DoneIsStreamed ==
  ASSUME StreamOK, IsDone(session)
  PROVE  AllStreamed
BY DEF StreamOK, IsDone, PartsCut, AllStreamed

LEMMA HashNextPartKeeps ==
  ASSUME IInv, HashNextPart PROVE IInv'
<1>1. Opening' BY OpeningKept DEF IInv, Opening, HashNextPart
<1>2. Pieces(session)' = Pieces(session) BY StreamFrame DEF HashNextPart, opening
<1>3. StreamOK' BY <1>2 DEF IInv, StreamOK, AllStreamed, HashNextPart, opening
<1> QED BY <1>1, <1>3 DEF IInv, Opening

LEMMA NextChunkKeeps ==
  ASSUME IInv, NextChunk PROVE IInv'
<1>1. Opening' BY OpeningKept DEF IInv, Opening, NextChunk
<1>2. Pieces(session)' = Pieces(session) /\ session' = session BY StreamFrame DEF NextChunk, opening
<1>3. session.ok /\ generator' = generator BY DEF NextChunk
<1>4. /\ failures' \in Nat
      /\ cursor' \in 1 .. Len(Pieces(session)) + 1
      /\ exhausted' => cursor' > Len(Pieces(session))
      /\ AllStreamed => cursor' > Len(Pieces(session))
      /\ \/ failures' > 0 /\ session.target \in {"stfs", "ciso"}
         \/ delivered' = Before(Pieces(session), cursor')
  BY <1>2, <1>3, ChunkKept DEF NextChunk, IInv, HandleOK
<1>5. StreamOK' BY <1>2, <1>3, <1>4 DEF IInv, StreamOK, AllStreamed
<1> QED BY <1>1, <1>5 DEF IInv, Opening

LEMMA StartGeneratorKeeps ==
  ASSUME IInv, StartGenerator PROVE IInv'
<1>1. Opening' BY OpeningKept DEF IInv, Opening, StartGenerator
<1>2. Pieces(session)' = Pieces(session) BY StreamFrame DEF StartGenerator, opening
<1>3. StreamOK' BY <1>2 DEF IInv, StreamOK, AllStreamed, StartGenerator, opening
<1> QED BY <1>1, <1>3 DEF IInv, Opening

LEMMA WaitForRoomKeeps ==
  ASSUME IInv, WaitForRoom PROVE IInv'
<1>1. Opening' BY OpeningKept DEF IInv, Opening, WaitForRoom
<1>2. Pieces(session)' = Pieces(session) BY StreamFrame DEF WaitForRoom, opening
<1>3. generator' = "ended" => AllStreamed BY DoneIsStreamed DEF WaitForRoom, IInv
<1>4. StreamOK' BY <1>2, <1>3 DEF IInv, StreamOK, AllStreamed, WaitForRoom, opening
<1> QED BY <1>1, <1>4 DEF IInv, Opening

LEMMA GeneratorStepKeeps ==
  ASSUME IInv, GeneratorStep PROVE IInv'
<1>1. Opening' BY OpeningKept DEF IInv, Opening, GeneratorStep
<1>2. Pieces(session)' = Pieces(session) /\ session' = session BY StreamFrame DEF GeneratorStep, opening
<1>3. session.ok BY DEF GeneratorStep, IInv, StreamOK
<1>4. /\ failures' \in Nat
      /\ cursor' \in 1 .. Len(Pieces(session)) + 1
      /\ exhausted' => cursor' > Len(Pieces(session))
      /\ AllStreamed => cursor' > Len(Pieces(session))
      /\ \/ failures' > 0 /\ session.target \in {"stfs", "ciso"}
         \/ delivered' = Before(Pieces(session), cursor')
  BY <1>2, <1>3, ChunkKept DEF GeneratorStep, IInv, HandleOK
<1>5. generator' = "ended" => AllStreamed BY DEF GeneratorStep, YieldsNothing
<1>6. StreamOK' BY <1>2, <1>3, <1>4, <1>5 DEF IInv, StreamOK, AllStreamed
<1> QED BY <1>1, <1>6 DEF IInv, Opening
-----------------------------------------------------------------------------
(* The calls, and the theorems                                               *)

\* Nothing is streamed until a session has begun.
LEMMA IdleStream ==
  ASSUME IInv, ~session.ok
  PROVE  /\ session = NoSession /\ cursor = 1 /\ ~exhausted /\ generator = "idle"
         /\ failures = 0 /\ delivered = <<>>
BY DEF IInv, SessionOK, StreamOK

\* A session begins at its first piece; no session is no stream.
LEMMA StreamBegins ==
  ASSUME IInv, ~session.ok, UNCHANGED <<source, streaming>>, SessionOK'
  PROVE  StreamOK'
<1>1. /\ cursor' = 1 /\ ~exhausted' /\ generator' = "idle"
      /\ failures' = 0 /\ delivered' = <<>>
  BY IdleStream DEF streaming
<1>2. ASSUME session'.ok
      PROVE  cursor' \in 1 .. Len(Pieces(session)') + 1
  <2>1. DOMAIN session'.files = DOMAIN source.files BY <1>2 DEF SessionOK
  <2>2. Pieces(session') \in Seq(Nat) BY <2>1, PiecesAreASequence DEF IInv, HandleOK
  <2>3. Pieces(session)' = Pieces(session') BY DEF Pieces, FilePieces
  <2> QED BY <1>1, <2>2, <2>3, LenProperties
<1>3. delivered' = Before(Pieces(session)', cursor') BY <1>1 DEF Before
<1> QED BY <1>1, <1>2, <1>3 DEF StreamOK

LEMMA DetectKeeps ==
  ASSUME IInv, Detect PROVE IInv'
<1>1. HandleOK' BY OtherHandles DEF IInv, Detect
<1>2. HandleIsTransparent' BY DEF Detect, HandleIsTransparent, NoCall
<1>3. SessionOK' BY DEF IInv, SessionOK, Detect
<1>4. TransferIsConsistent' BY IdleStream DEF Detect, TransferIsConsistent, NoSession, None
<1>5. StreamOK' BY <1>3, StreamBegins DEF Detect
<1> QED BY <1>1, <1>2, <1>3, <1>4, <1>5 DEF IInv

LEMMA OpenSourceKeeps ==
  ASSUME IInv, OpenSource PROVE IInv'
<1>1. HandleOK' BY OtherHandles DEF IInv, OpenSource
<1>2. HandleIsTransparent' BY DEF OpenSource, HandleIsTransparent, NoCall
<1>3. SessionOK' BY DEF IInv, SessionOK, OpenSource
<1>4. TransferIsConsistent' BY IdleStream DEF OpenSource, TransferIsConsistent, NoSession, None
<1>5. StreamOK' BY <1>3, StreamBegins DEF OpenSource
<1> QED BY <1>1, <1>2, <1>3, <1>4, <1>5 DEF IInv

\* Inspecting and attaching change what the handle keeps, and nothing else.
LEMMA ProbingKeeps ==
  ASSUME IInv, NEW via \in Vias, NEW what \in {"inspect", "attach"}, NEW arg, NEW fault,
         CanCall(via), Called(via, what, arg, fault), KeptProbe(via, fault),
         UNCHANGED <<source, ref, session, streaming>>
  PROVE  IInv'
<1>1. HandleOK' BY ProbeKept DEF IInv
<1>2. HandleIsTransparent' BY CallTransparent DEF IInv, Whats
<1>3. SessionOK' BY DEF IInv, SessionOK
<1>4. ~session.ok BY DEF CanCall
<1>5. TransferIsConsistent' BY <1>4, IdleStream DEF TransferIsConsistent, NoSession, None
<1>6. StreamOK' BY <1>3, <1>4, StreamBegins
<1> QED BY <1>1, <1>2, <1>3, <1>5, <1>6 DEF IInv

LEMMA OpenConversionSessionKeeps ==
  ASSUME IInv, NEW via \in Vias, NEW options \in OptionsGiven, NEW fault,
         OpenConversionSession(via, options, fault)
  PROVE  IInv'
<1> DEFINE reply == SessionAnswer(Asked(via), options, fault)
<1>1. /\ CanCall(via) /\ Called(via, "session", options, fault) /\ session' = last'.answer
      /\ handle' = (IF via = "handle" THEN Consumed ELSE handle)
      /\ UNCHANGED <<source, ref, streaming>>
  BY DEF OpenConversionSession
<1>2. HandleOK' BY <1>1, OtherHandles DEF IInv
<1>3. HandleIsTransparent' BY <1>1, CallTransparent DEF IInv, Whats
<1>4. session' = reply /\ last'.arg = options BY <1>1 DEF Called, Answer
<1>5. ~IsOpen(Asked(via)) \/ Asked(via).state = Opened(source, ref).state
  <2>1. handle.state = "consumed" \/ handle.state = "none" \/ Faithful(handle)
    BY DEF IInv, HandleOK, NoHandle, Consumed
  <2> QED BY <2>1, ProbedFacts DEF Asked, IsOpen
<1>6. /\ reply = NoSession \/ reply.ok
      /\ reply.ok => DOMAIN reply.files = DOMAIN source.files
      /\ Consistent(reply, options)
  BY <1>5, SessionBegins DEF IInv, HandleOK
<1> HIDE DEF reply
<1>7. SessionOK' BY <1>1, <1>4, <1>6 DEF SessionOK, NoSession
<1>8. TransferIsConsistent'
  <2>1. reply.target = "stfs" => reply.ok BY <1>6 DEF NoSession, None
  <2> QED BY <1>1, <1>4, <1>6, <2>1 DEF TransferIsConsistent, TransferAsked, Consistent
<1>9. StreamOK' BY <1>1, <1>7, StreamBegins DEF CanCall
<1> QED BY <1>2, <1>3, <1>7, <1>8, <1>9 DEF IInv

LEMMA InitInvariant ==
  ASSUME Init PROVE IInv
<1>1. HandleOK /\ HandleIsTransparent BY DEF Init, HandleOK, HandleIsTransparent, NoCall
<1>2. SessionOK /\ TransferIsConsistent BY DEF Init, SessionOK, TransferIsConsistent, NoSession, None
<1>3. StreamOK BY DEF Init, StreamOK, NoSession, Before
<1> QED BY <1>1, <1>2, <1>3 DEF IInv

LEMMA NextKeepsInvariant ==
  ASSUME IInv, [Next]_vars PROVE IInv'
<1>1. CASE Detect BY <1>1, DetectKeeps
<1>2. CASE OpenSource BY <1>2, OpenSourceKeeps
<1>3. ASSUME NEW via \in Vias, NEW fault \in Faults, NEW thumbnail \in BOOLEAN,
             Inspect(via, thumbnail, fault)
      PROVE  IInv'
  BY <1>3, ProbingKeeps DEF Inspect
<1>4. ASSUME NEW via \in Vias, NEW fault \in Faults, GenerateAttachXbe(via, fault)
      PROVE  IInv'
  BY <1>4, ProbingKeeps DEF GenerateAttachXbe
<1>5. ASSUME NEW via \in Vias, NEW fault \in Faults, NEW options \in OptionsGiven,
             OpenConversionSession(via, options, fault)
      PROVE  IInv'
  BY <1>5, OpenConversionSessionKeeps
<1>6. CASE HashNextPart BY <1>6, HashNextPartKeeps
<1>7. CASE NextChunk BY <1>7, NextChunkKeeps
<1>8. CASE StartGenerator BY <1>8, StartGeneratorKeeps
<1>9. CASE WaitForRoom BY <1>9, WaitForRoomKeeps
<1>10. CASE GeneratorStep BY <1>10, GeneratorStepKeeps
<1>11. CASE UNCHANGED vars
  <2>1. Opening' BY <1>11, OpeningKept DEF IInv, Opening, vars
  <2>2. Pieces(session)' = Pieces(session) BY <1>11, StreamFrame DEF vars, opening
  <2>3. StreamOK' BY <1>11, <2>2 DEF IInv, StreamOK, AllStreamed, vars, opening, streaming
  <2> QED BY <2>1, <2>3 DEF IInv, Opening
<1> QED BY <1>1, <1>2, <1>3, <1>4, <1>5, <1>6, <1>7, <1>8, <1>9, <1>10, <1>11 DEF Next

\* The inductive invariant holds of every behaviour: a handle is the source
\* just opened, or keeps a probe in which no read failed, and the stream is in
\* step with its cursor.
THEOREM Invariant == Spec => []IInv
<1>1. Init => IInv BY InitInvariant
<1>2. IInv /\ [Next]_vars => IInv' BY NextKeepsInvariant
<1> QED BY <1>1, <1>2, PTL DEF Spec

\* Whatever was asked of a handle before (OpenedSource), it answers like the
\* source opened for the call; a call in which a read fails throws, or answers
\* the same, or does without the title where it may.
THEOREM Transparent == Spec => []HandleIsTransparent
<1>1. IInv => HandleIsTransparent BY DEF IInv
<1> QED BY <1>1, Invariant, PTL

\* The header of a transferred profile names the account in the package, which
\* is the one read but for what was asked; nothing else of the files changes.
THEOREM Transfers == Spec => []TransferIsConsistent
<1>1. IInv => TransferIsConsistent BY DEF IInv
<1> QED BY <1>1, Invariant, PTL

\* A generator that ends has delivered every piece in order, if no read failed
\* in a session of one of the two writers that go on after one.
THEOREM GeneratorDelivers == Spec => []GeneratorDeliversAll
<1>1. IInv => GeneratorDeliversAll
  <2> SUFFICES ASSUME IInv, generator = "ended"
      PROVE  \/ delivered = Pieces(session)
             \/ failures > 0 /\ session.target \in {"stfs", "ciso"}
    BY DEF GeneratorDeliversAll
  <2>1. session.ok /\ AllStreamed BY DEF IInv, StreamOK
  <2>2. Pieces(session) \in Seq(Nat) BY <2>1, PiecesAreASequence DEF IInv, HandleOK, SessionOK
  <2>3. cursor = Len(Pieces(session)) + 1 BY <2>1, <2>2, LenProperties DEF IInv, StreamOK, AllStreamed
  <2>4. Before(Pieces(session), cursor) = Pieces(session) BY <2>2, <2>3, BeforeAll
  <2> QED BY <2>4 DEF IInv, StreamOK
<1> QED BY <1>1, Invariant, PTL

-----------------------------------------------------------------------------
(* Where files begin, and the bytes of the source                            *)

FileEntry == [path : Seq(DOMAIN Fold), size : Nat]

\* The files lie end to end.
LEMMA FileStarts ==
  ASSUME NEW list \in Seq(FileEntry)
  PROVE  /\ Len(list) \in Nat
         /\ FileStart(list, 1) = 0
         /\ \A f \in 1 .. Len(list) + 1 : FileStart(list, f) \in Nat
         /\ \A f \in 1 .. Len(list) :
              FileStart(list, f + 1) = FileStart(list, f) + list[f].size
<1> DEFINE N == Len(list)
           g == [f \in 1 .. N |-> list[f].size]
<1>1. N \in Nat /\ \A f \in 1 .. N : list[f] \in FileEntry OBVIOUS
<1>2. \A f \in 1 .. N : g[f] = list[f].size /\ g[f] \in Nat BY <1>1 DEF FileEntry
<1>3. HasLen(g, N) BY <1>1 DEF HasLen
<1>4. ASSUME NEW k \in 0 .. N PROVE [f \in 1 .. k |-> list[f].size] = [f \in 1 .. k |-> g[f]] BY <1>2
<1>5. \A f \in 1 .. N + 1 : f - 1 \in 0 .. N BY <1>1
<1>6. ASSUME NEW f \in 1 .. N + 1
      PROVE  FileStart(list, f) = FoldLeft(+, 0, [i \in 1 .. f - 1 |-> g[i]])
  BY <1>4, <1>5 DEF FileStart
<1> HIDE DEF g, N
<1>7. /\ FoldLeft(+, 0, [i \in 1 .. 0 |-> g[i]]) = 0
      /\ \A k \in 0 .. N : FoldLeft(+, 0, [i \in 1 .. k |-> g[i]]) \in Nat
      /\ \A k \in 1 .. N : FoldLeft(+, 0, [i \in 1 .. k |-> g[i]])
                             = FoldLeft(+, 0, [i \in 1 .. k - 1 |-> g[i]]) + g[k]
  BY <1>1, <1>2, <1>3, FoldedSums
<1>8. 1 \in 1 .. N + 1 /\ 1 - 1 = 0 BY <1>1
<1>9. \A f \in 1 .. N : f + 1 \in 1 .. N + 1 /\ f \in 1 .. N + 1 /\ (f + 1) - 1 = f BY <1>1
<1>10. FileStart(list, 1) = 0 BY <1>6, <1>7, <1>8
<1>11. \A f \in 1 .. N + 1 : FileStart(list, f) \in Nat BY <1>5, <1>6, <1>7
<1>12. ASSUME NEW f \in 1 .. N PROVE FileStart(list, f + 1) = FileStart(list, f) + list[f].size
  BY <1>2, <1>6, <1>7, <1>9
<1> QED BY <1>1, <1>10, <1>11, <1>12 DEF N

\* None before another that comes before it.
LEMMA FileStartsRise ==
  ASSUME NEW list \in Seq(FileEntry), NEW m \in 1 .. Len(list) + 1
  PROVE  \A f \in 1 .. m : FileStart(list, f) <= FileStart(list, m)
<1> DEFINE N == Len(list)
           D == {k \in Nat : k + 1 <= m => FileStart(list, m - k) <= FileStart(list, m)}
<1>1. /\ N \in Nat /\ m \in Nat
      /\ \A f \in 1 .. N + 1 : FileStart(list, f) \in Nat
      /\ \A f \in 1 .. N : FileStart(list, f + 1) = FileStart(list, f) + list[f].size
      /\ \A f \in 1 .. N : list[f].size \in Nat
  <2>1. /\ N \in Nat
        /\ \A f \in 1 .. N + 1 : FileStart(list, f) \in Nat
        /\ \A f \in 1 .. N : FileStart(list, f + 1) = FileStart(list, f) + list[f].size
    BY FileStarts
  <2>2. \A f \in 1 .. N : list[f] \in FileEntry OBVIOUS
  <2> QED BY <2>1, <2>2 DEF FileEntry
<1> HIDE DEF N
<1>2. m \in 1 .. N + 1 BY DEF N
<1>3. 0 \in D BY <1>1, <1>2
<1>4. ASSUME NEW k \in Nat, k \in D PROVE k + 1 \in D
  <2> SUFFICES ASSUME (k + 1) + 1 <= m PROVE FileStart(list, m - (k + 1)) <= FileStart(list, m) OBVIOUS
  <2> DEFINE f == m - (k + 1)
  <2>1. f \in 1 .. N /\ f + 1 = m - k /\ f + 1 \in 1 .. N + 1 /\ f \in 1 .. N + 1 /\ k + 1 <= m
    BY <1>1, <1>2
  <2>2. FileStart(list, f + 1) <= FileStart(list, m) BY <1>4, <2>1
  <2> HIDE DEF f
  <2>3. /\ FileStart(list, f + 1) = FileStart(list, f) + list[f].size
        /\ list[f].size \in Nat /\ FileStart(list, f) \in Nat /\ FileStart(list, m) \in Nat
    BY <1>1, <1>2, <2>1
  <2>4. FileStart(list, f) <= FileStart(list, m) BY <2>2, <2>3
  <2> QED BY <2>4 DEF f
<1> HIDE DEF D
<1>5. Nat \subseteq D BY <1>3, <1>4, NatInduct
<1>6. ASSUME NEW f \in 1 .. m PROVE FileStart(list, f) <= FileStart(list, m)
  <2>1. m - f \in Nat /\ m - (m - f) = f /\ (m - f) + 1 <= m BY <1>1
  <2>2. m - f \in D BY <1>5, <2>1
  <2> QED BY <2>1, <2>2 DEF D
<1> QED BY <1>6

\* The bytes of the source are those of its files, each where it begins.
SourceLaidOut ==
  /\ HasLen(SourceBytes, FileStart(files, Len(files) + 1))
  /\ \A f \in 1 .. Len(files) : \A i \in 1 .. files[f].size :
       SourceBytes[FileStart(files, f) + i] = [file |-> f, pos |-> i]
  /\ \A j \in 1 .. FileStart(files, Len(files) + 1) : SourceBytes[j] \in Byte

\* Every byte of every file is at its place in the source laid end to end.
LEMMA SourceIsLaidOut ==
  ASSUME files \in Seq(FileEntry)
  PROVE  SourceLaidOut
<1> DEFINE N == Len(files)
           size(f) == files[f].size
           st(f) == FileStart(files, f)
           byte(f, i) == [file |-> f, pos |-> i]
           g == [f \in DOMAIN files |-> [i \in 1 .. files[f].size |-> [file |-> f, pos |-> i]]]
<1>1. /\ N \in Nat /\ st(1) = 0
      /\ \A f \in 1 .. N + 1 : st(f) \in Nat
      /\ \A f \in 1 .. N : st(f + 1) = st(f) + size(f)
  BY FileStarts
<1>2. \A f \in 1 .. N : size(f) \in Nat
  <2>1. \A f \in 1 .. N : files[f] \in FileEntry OBVIOUS
  <2> QED BY <2>1 DEF FileEntry
<1>3. HasLen(g, N) /\ \A f \in 1 .. N : HasLen(g[f], size(f)) /\ \A i \in 1 .. size(f) : g[f][i] = byte(f, i)
  <2>1. DOMAIN files = 1 .. N OBVIOUS
  <2> QED BY <1>1, <1>2, <2>1 DEF HasLen
<1>4. \A f \in 1 .. N : \A i \in 1 .. size(f) : byte(f, i) \in Byte BY <1>1, <1>2 DEF Byte
<1>5. SourceBytes = FoldLeft(\o, <<>>, g) BY DEF SourceBytes, EndToEnd
<1>6. \A f \in 1 .. N : \A h \in 1 .. f : h \in 1 .. N /\ st(h + 1) <= st(f + 1)
  <2> SUFFICES ASSUME NEW f \in 1 .. N, NEW h \in 1 .. f PROVE h \in 1 .. N /\ st(h + 1) <= st(f + 1)
    OBVIOUS
  <2>1. f + 1 \in 1 .. Len(files) + 1 /\ h + 1 \in 1 .. f + 1 /\ h \in 1 .. N BY <1>1
  <2> QED BY <2>1, FileStartsRise
<1> HIDE DEF g, N, size, st, byte
<1>7. PICK run : IsConcatRun(run, g, N) /\ FoldLeft(\o, <<>>, g) = run[N] BY <1>1, <1>3, ConcatRun
<1>8. run[0] = <<>> /\ \A k \in 1 .. N : run[k] = run[k - 1] \o g[k] BY <1>7 DEF IsConcatRun
<1> DEFINE Good(k) == /\ HasLen(run[k], st(k + 1))
                      /\ \A f \in 1 .. k : \A i \in 1 .. size(f) : run[k][st(f) + i] = byte(f, i)
                      /\ \A j \in 1 .. st(k + 1) : run[k][j] \in Byte
           D == {k \in Nat : k <= N => Good(k)}
<1>9. 0 \in D
  <2>1. HasLen(<<>>, 0) BY DEF HasLen
  <2>2. 0 + 1 = 1 /\ 1 .. 0 = {} OBVIOUS
  <2> QED BY <1>1, <1>8, <2>1, <2>2
<1>10. ASSUME NEW k \in Nat, k \in D PROVE k + 1 \in D
  <2> SUFFICES ASSUME k + 1 <= N PROVE Good(k + 1) OBVIOUS
  <2> DEFINE m == st(k + 1)
             n == size(k + 1)
             s == run[k]
             t == g[k + 1]
             r == run[k + 1]
  <2>1. k + 1 \in 1 .. N /\ (k + 1) - 1 = k /\ k <= N /\ k + 1 \in 1 .. N + 1 BY <1>1
  <2>2. Good(k) BY <1>10, <2>1
  <2>3. r = s \o t BY <1>8, <2>1
  <2>4. HasLen(s, m) /\ HasLen(t, n) /\ m \in Nat /\ n \in Nat /\ st((k + 1) + 1) = m + n
    BY <1>1, <1>2, <1>3, <2>1, <2>2
  <2>5. IsConcat(s \o t, s, m, t, n) BY <2>4, SequenceConcat
  <2>6. HasLen(r, m + n) /\ \A i \in 1 .. m + n : r[i] = IF i <= m THEN s[i] ELSE t[i - m]
    BY <2>3, <2>5 DEF IsConcat
  <2>7. \A j \in 1 .. m + n : r[j] \in Byte
    <3> SUFFICES ASSUME NEW j \in 1 .. m + n PROVE r[j] \in Byte OBVIOUS
    <3>1. CASE j <= m
      <4>1. j \in 1 .. m BY <2>4, <3>1
      <4> QED BY <2>2, <2>6, <3>1, <4>1
    <3>2. CASE ~(j <= m)
      <4>1. j - m \in 1 .. n BY <2>4, <3>2
      <4> QED BY <1>3, <1>4, <2>1, <2>6, <3>2, <4>1
    <3> QED BY <3>1, <3>2
  <2>8. ASSUME NEW f \in 1 .. k + 1, NEW i \in 1 .. size(f) PROVE r[st(f) + i] = byte(f, i)
    <3>1. CASE f = k + 1
      <4>1. i \in 1 .. n /\ st(f) + i = m + i /\ m + i \in 1 .. m + n /\ ~(m + i <= m) /\ (m + i) - m = i
        BY <2>4, <3>1
      <4> QED BY <1>3, <2>1, <2>6, <3>1, <4>1
    <3>2. CASE f # k + 1
      <4>1. f \in 1 .. k /\ k \in 1 .. N /\ f \in 1 .. N /\ f \in 1 .. N + 1 BY <1>1, <2>1, <3>2
      <4>2. st(f) \in Nat /\ st(f + 1) = st(f) + size(f) /\ st(f + 1) <= m /\ size(f) \in Nat
        BY <1>1, <1>2, <1>6, <4>1
      <4>3. st(f) + i \in 1 .. m + n /\ st(f) + i <= m BY <2>4, <4>2
      <4> QED BY <2>2, <2>6, <4>1, <4>3
    <3> QED BY <3>1, <3>2
  <2> QED BY <2>4, <2>6, <2>7, <2>8
<1> HIDE DEF D
<1>11. Nat \subseteq D BY <1>9, <1>10, NatInduct
<1>12. Good(N) BY <1>1, <1>11 DEF D
<1> QED BY <1>5, <1>7, <1>12 DEF SourceLaidOut, N, size, st, byte

-----------------------------------------------------------------------------
(* The invariant of the writer                                               *)

SourceSize == FileStart(files, Len(files) + 1)

\* What a block is to hold.
BlockOf(b) ==
  [i \in 1 .. BlockBytes |-> IF b * BlockBytes + i \in 1 .. SourceSize
     THEN SourceBytes[b * BlockBytes + i] ELSE ZeroByte]

BeforeFlush == phase \in {"Streaming", "refused"}

\* Where the session is in its files, and what it holds of them.
InputInv ==
  /\ files \in Listings
  /\ current_file \in 1 .. Len(files) + 1
  /\ current_file_pos \in Nat
  /\ current_file <= Len(files) => current_file_pos <= files[current_file].size
  /\ current_file = Len(files) + 1 => current_file_pos = 0
  /\ blocks_written \in Nat
  /\ block_buffer \in Seq(Byte) /\ Len(block_buffer) < BlockBytes
  /\ \A i \in 1 .. Len(block_buffer) :
       block_buffer[i] = SourceBytes[blocks_written * BlockBytes + i]
  /\ BeforeFlush => blocks_written * BlockBytes + Len(block_buffer)
                      = FileStart(files, current_file) + current_file_pos
  /\ ~BeforeFlush => /\ current_file = Len(files) + 1
                     /\ block_buffer = <<>>
                     /\ SourceSize <= blocks_written * BlockBytes

\* What was emitted lies end to end, and nothing of it is empty.
ArchiveInv ==
  /\ total_emitted \in Nat
  /\ HasLen(archive, Len(archive))
  /\ \A i \in 1 .. Len(archive) :
       /\ archive[i].at \in Nat /\ archive[i].len \in Nat \ {0}
       /\ archive[i].at + archive[i].len
            = IF i = Len(archive) THEN total_emitted ELSE archive[i + 1].at
       /\ archive[i].at + archive[i].len <= total_emitted
       /\ \A j \in 1 .. i - 1 : archive[j].at + archive[j].len <= archive[i].at

\* The blocks come first, and hold what they are to hold.
BlocksInv ==
  /\ blocks_written <= Len(archive)
  /\ BeforeFlush => Len(archive) = blocks_written
  /\ \A b \in 1 .. blocks_written :
       /\ archive[b].what = BlockOf(b - 1)
       /\ archive[b].len <= BlockBytes
       /\ archive[b].kind = IF archive[b].len = BlockBytes THEN "raw" ELSE "zstd"

RecordSet == [base_offset : Nat, sizes : Seq(0 .. BlockBytes - 1)]

\* Block number a + i is the i-th of a record that begins after a blocks.
IsRecord(items, record, a) ==
  /\ record \in RecordSet
  /\ Len(record.sizes) \in 1 .. EntriesPerRecord
  /\ record.base_offset = items[a + 1].at
  /\ \A i \in 1 .. Len(record.sizes) : record.sizes[i] = items[a + i].len - 1

\* Every record but the last is full, and together they are of all blocks.
RecordsInv ==
  /\ HasLen(offset_records, Len(offset_records))
  /\ offset_records = <<>> => blocks_written = 0
  /\ \A r \in 1 .. Len(offset_records) :
       /\ IsRecord(archive, offset_records[r], (r - 1) * EntriesPerRecord)
       /\ (r - 1) * EntriesPerRecord + Len(offset_records[r].sizes)
            = IF r = Len(offset_records) THEN blocks_written ELSE r * EntriesPerRecord

\* The sections written so far hold what a reader needs.
SectionsInv ==
  /\ sections \in [compressed_data : Nat, offset_records : SpanSet,
                   names : SpanSet, file_tree : SpanSet]
  /\ sections.compressed_data <= total_emitted
  /\ phase \in {"NameTable", "FileTree", "Footer", "Done"} =>
       /\ sections.offset_records.size = RecordSize * Len(offset_records)
       /\ InSpan(archive, total_emitted, sections.offset_records, FullRecords)
  /\ phase \in {"FileTree", "Footer", "Done"} =>
       InSpan(archive, total_emitted, sections.names, name_table_bytes)
  /\ phase \in {"Footer", "Done"} =>
       /\ sections.file_tree.size = EntrySize * Len(file_tree_bytes)
       /\ InSpan(archive, total_emitted, sections.file_tree, file_tree_bytes)
  /\ phase = "Done" =>
       /\ total_emitted > FooterSize
       /\ \E i \in 1 .. Len(archive) :
            /\ archive[i].at = total_emitted - FooterSize
            /\ archive[i].len = FooterSize
            /\ archive[i].kind = "Footer"
            /\ archive[i].what = [sections |-> sections, total_size |-> total_emitted]

Phases == {"refused", "Streaming", "AlignPad", "OffsetRecords",
           "NameTable", "FileTree", "Footer", "Done"}

\* What has been queued and not handed over yet.
CallInv ==
  /\ phase \in Phases
  /\ pending_output \in Nat
  /\ written \in Nat
  /\ written + pending_output = total_emitted
  /\ call \in ChunkLimits \cup {0}
  /\ throws \in 0 .. MaxThrows
  /\ phase = "refused" => call = 0 /\ current_file = 1 /\ current_file_pos = 0

\* The directory is the one build() made.
PlanInv ==
  LET tree == PathTree(files)
      names == Interned(tree.arena)
  IN /\ phase = "refused" <=> ~tree.ok
     /\ name_table_bytes = IF tree.ok THEN NameTable(names) ELSE <<>>
     /\ file_tree_bytes = IF tree.ok THEN FileTree(tree.arena, names) ELSE <<>>
     /\ total_input_bytes = tree.running_offset

WriterInv ==
  InputInv /\ ArchiveInv /\ BlocksInv /\ RecordsInv /\ SectionsInv /\ CallInv /\ PlanInv

-----------------------------------------------------------------------------
(* Emitting                                                                  *)

\* The source stays as it is.
LEMMA SourceStays ==
  ASSUME files' = files
  PROVE  /\ SourceSize' = SourceSize /\ SourceBytes' = SourceBytes
         /\ \A b : BlockOf(b)' = BlockOf(b)
         /\ SourceLaidOut' = SourceLaidOut
<1>1. SourceSize' = SourceSize /\ SourceBytes' = SourceBytes BY DEF SourceSize, SourceBytes
<1> QED BY <1>1 DEF BlockOf, SourceLaidOut

\* One item more, at the end.
IsEmitted(len, kind, what) ==
  /\ total_emitted' = total_emitted + len
  /\ pending_output' = pending_output + len
  /\ Len(archive') = Len(archive) + 1
  /\ \A i \in 1 .. Len(archive) : archive'[i] = archive[i]
  /\ archive'[Len(archive) + 1] = [at |-> total_emitted, len |-> len, kind |-> kind, what |-> what]

\* emit() adds an item where the archive ended.
LEMMA Emitted ==
  ASSUME ArchiveInv, NEW len \in Nat \ {0}, NEW kind, NEW what, Emit(kind, what, len)
  PROVE  ArchiveInv' /\ IsEmitted(len, kind, what)
<1> DEFINE m == Len(archive)
           e == [at |-> total_emitted, len |-> len, kind |-> kind, what |-> what]
<1>1. /\ total_emitted \in Nat /\ HasLen(archive, m)
      /\ \A i \in 1 .. m :
           /\ archive[i].at \in Nat /\ archive[i].len \in Nat \ {0}
           /\ archive[i].at + archive[i].len = IF i = m THEN total_emitted ELSE archive[i + 1].at
           /\ archive[i].at + archive[i].len <= total_emitted
           /\ \A j \in 1 .. i - 1 : archive[j].at + archive[j].len <= archive[i].at
  BY DEF ArchiveInv
<1>2. /\ archive' = Append(archive, e) /\ total_emitted' = total_emitted + len
      /\ pending_output' = pending_output + len
  BY DEF Emit
<1>3. e.at = total_emitted /\ e.len = len OBVIOUS
<1> HIDE DEF e, m
<1>4. IsAppend(archive', archive, m, e) BY <1>1, <1>2, SequenceAppend
<1>5. /\ HasLen(archive', m + 1) /\ m \in Nat
      /\ \A i \in 1 .. m + 1 : archive'[i] = IF i <= m THEN archive[i] ELSE e
  BY <1>1, <1>4 DEF IsAppend, HasLen
<1>6. Len(archive') = m + 1 BY <1>5, SequenceLength
<1>7. /\ \A i \in 1 .. m : archive'[i] = archive[i] /\ i \in 1 .. m + 1
      /\ archive'[m + 1] = e
  BY <1>5
<1>8. total_emitted' \in Nat /\ total_emitted <= total_emitted' BY <1>1, <1>2
<1>9. ASSUME NEW i \in 1 .. m + 1
      PROVE  /\ archive'[i].at \in Nat /\ archive'[i].len \in Nat \ {0}
             /\ archive'[i].at + archive'[i].len
                  = IF i = m + 1 THEN total_emitted' ELSE archive'[i + 1].at
             /\ archive'[i].at + archive'[i].len <= total_emitted'
             /\ \A j \in 1 .. i - 1 : archive'[j].at + archive'[j].len <= archive'[i].at
  <2>1. CASE i = m + 1
    <3>1. \A j \in 1 .. i - 1 : j \in 1 .. m BY <2>1, <1>5
    <3>2. archive'[i] = e /\ e.at + e.len = total_emitted' /\ e.at \in Nat /\ e.len \in Nat \ {0}
      BY <1>1, <1>2, <1>3, <1>7, <2>1
    <3>3. \A j \in 1 .. i - 1 : archive'[j].at + archive'[j].len <= e.at BY <1>1, <1>3, <1>7, <3>1
    <3> QED BY <1>8, <2>1, <3>2, <3>3
  <2>2. CASE i # m + 1
    <3>1. i \in 1 .. m /\ (i # m => i + 1 \in 1 .. m) /\ (i = m => i + 1 = m + 1)
          /\ \A j \in 1 .. i - 1 : j \in 1 .. m
      BY <2>2, <1>5
    <3>2. archive'[i] = archive[i] BY <1>7, <3>1
    <3>3. archive[i].at + archive[i].len = archive'[i + 1].at BY <1>1, <1>3, <1>7, <3>1
    <3>4. archive[i].at + archive[i].len <= total_emitted' BY <1>1, <1>8, <3>1
    <3>5. \A j \in 1 .. i - 1 : archive'[j].at + archive'[j].len <= archive'[i].at BY <1>1, <1>7, <3>1
    <3> QED BY <1>1, <2>2, <3>1, <3>2, <3>3, <3>4, <3>5
  <2> QED BY <2>1, <2>2
<1>10. ArchiveInv' BY <1>5, <1>6, <1>8, <1>9 DEF ArchiveInv
<1>11. IsEmitted(len, kind, what) BY <1>2, <1>6, <1>7 DEF IsEmitted, e, m
<1> QED BY <1>10, <1>11

\* The sizes of the format.
LEMMA Sizes ==
  /\ BlockBytes \in Nat \ {0} /\ EntriesPerRecord \in Nat \ {0} /\ RecordSize \in Nat \ {0}
  /\ FooterSize \in Nat \ {0} /\ Alignment \in Nat \ {0} /\ EntrySize \in Nat \ {0}
  /\ MaxThrows \in Nat \ {0}
BY ZarAssumption

\* The last record is full exactly if the number of blocks is a multiple.
LEMMA LastRecord ==
  ASSUME RecordsInv, blocks_written \in Nat
  PROVE  /\ Len(offset_records) \in Nat
         /\ NewRecord(blocks_written) => blocks_written = Len(offset_records) * EntriesPerRecord
         /\ ~NewRecord(blocks_written) =>
              /\ Len(offset_records) > 0
              /\ Len(offset_records[Len(offset_records)].sizes) < EntriesPerRecord
<1> DEFINE R == Len(offset_records)
           E == EntriesPerRecord
           L == Len(offset_records[R].sizes)
           bw == blocks_written
<1>1. R \in Nat /\ E \in Nat \ {0} /\ HasLen(offset_records, R) /\ (offset_records = <<>> => bw = 0)
  BY Sizes DEF RecordsInv, HasLen
<1>2. CASE R = 0
  <2>1. offset_records = <<>> BY <1>1, <1>2 DEF HasLen
  <2>2. 0 % E = 0 /\ 0 * E = 0 BY <1>1
  <2> QED BY <1>1, <1>2, <2>1, <2>2 DEF NewRecord
<1>3. CASE R > 0
  <2>1. R \in 1 .. R BY <1>1, <1>3
  <2>2. (R - 1) * E + L = bw /\ L \in 1 .. E BY <2>1 DEF RecordsInv, IsRecord
  <2> DEFINE a == (R - 1) * E
  <2>3. a \in Nat /\ a + E = R * E /\ R - 1 \in Nat BY <1>1, <1>3
  <2>h. a = (R - 1) * E OBVIOUS
  <2> HIDE DEF a, L, R, E, bw
  <2>4. CASE L = E
    <3>1. bw = R * E BY <2>2, <2>3, <2>4, <2>h
    <3>2. R * E \in Nat /\ R \in Nat /\ R * E <= R * E /\ R * E < R * E + E BY <1>1
    <3>3. (R * E) % E = R * E - R * E BY ONLY <1>1, <3>2, DivUnique
    <3>4. bw % E = 0 BY <3>1, <3>2, <3>3
    <3> QED BY <1>1, <3>1, <3>4 DEF NewRecord, R, E, bw
  <2>5. CASE L # E
    <3>1. L < E /\ bw = a + L /\ L >= 1 /\ bw \in Nat BY <1>1, <2>2, <2>3, <2>5, <2>h
    <3>2. bw % E = bw - (R - 1) * E
      <4>1. bw \in Nat /\ (R - 1) * E <= bw /\ bw < (R - 1) * E + E /\ R - 1 \in Nat
        BY <1>1, <2>2, <2>3, <3>1, <2>h
      <4> QED BY ONLY <4>1, <1>1, DivUnique
    <3>3. bw % E # 0 BY <2>2, <2>3, <3>1, <3>2, <2>h
    <3> QED BY <1>1, <1>3, <3>1, <3>3 DEF NewRecord, R, E, bw, L
  <2> QED BY <2>4, <2>5
<1> QED BY <1>1, <1>2, <1>3

\* The records before stay right when an item is added behind their blocks.
LEMMA RecordsStay ==
  ASSUME RecordsInv, blocks_written \in Nat, Len(archive) \in Nat, blocks_written <= Len(archive),
         \A i \in 1 .. Len(archive) : archive'[i] = archive[i]
  PROVE  \A r \in 1 .. Len(offset_records) :
           /\ (r - 1) * EntriesPerRecord \in Nat
           /\ (r - 1) * EntriesPerRecord + Len(offset_records[r].sizes) <= blocks_written
           /\ \A i \in 1 .. Len(offset_records[r].sizes) :
                archive'[(r - 1) * EntriesPerRecord + i] = archive[(r - 1) * EntriesPerRecord + i]
<1> DEFINE R == Len(offset_records)
           E == EntriesPerRecord
           L(r) == Len(offset_records[r].sizes)
           bw == blocks_written
<1>1. R \in Nat /\ E \in Nat \ {0} /\ bw \in Nat /\ R - 1 \in Int BY Sizes DEF RecordsInv, HasLen
<1>2. \A r \in 1 .. R : L(r) \in 1 .. E /\ (r - 1) * E + L(r) = IF r = R THEN bw ELSE r * E
  BY DEF RecordsInv, IsRecord
<1> SUFFICES ASSUME NEW r \in 1 .. R
    PROVE  /\ (r - 1) * E \in Nat /\ (r - 1) * E + L(r) <= bw
           /\ \A i \in 1 .. L(r) : archive'[(r - 1) * E + i] = archive[(r - 1) * E + i]
  OBVIOUS
<1> DEFINE a == (r - 1) * E
<1>3. a \in Nat BY <1>1
<1>4. a + L(r) <= bw
  <2>1. CASE r = R
    <3>1. (r - 1) * E + L(r) = bw BY <1>2, <2>1
    <3> HIDE DEF L, R, E, bw
    <3> QED BY <1>1, <3>1
  <2>2. CASE r # R
    <3>1. r \in Nat /\ R - 1 \in Nat /\ r <= R - 1 /\ R \in 1 .. R BY <1>1, <2>2
    <3>2. r * E <= (R - 1) * E BY <1>1, <3>1, MultMonotonic
    <3>3. a + L(r) = r * E /\ (R - 1) * E + L(R) = bw /\ L(R) \in 1 .. E BY <1>2, <2>2, <3>1
    <3>4. (R - 1) * E \in Nat /\ r * E \in Nat BY <1>1, <3>1
    <3> HIDE DEF a, L, R, E, bw
    <3> DEFINE x == r * E
               y == (R - 1) * E
    <3>5. x <= y /\ a + L(r) = x /\ y + L(R) = bw /\ L(R) \in 1 .. E /\ x \in Nat /\ y \in Nat
      BY <3>2, <3>3, <3>4
    <3> HIDE DEF x, y
    <3> QED BY <1>1, <3>5
  <2> QED BY <2>1, <2>2
<1>5. L(r) \in Nat BY <1>1, <1>2
<1> HIDE DEF a, L, R, E, bw
<1>6. \A i \in 1 .. L(r) : a + i \in 1 .. bw BY <1>1, <1>3, <1>4, <1>5
<1>7. \A i \in 1 .. L(r) : archive'[a + i] = archive[a + i]
  <2>1. \A i \in 1 .. bw : i \in 1 .. Len(archive) BY DEF bw
  <2> QED BY <1>6, <2>1
<1> QED BY <1>3, <1>4, <1>7 DEF a

\* A record with one size more.
LEMMA RecordExtended ==
  ASSUME NEW record \in RecordSet, NEW size
  PROVE  [record EXCEPT !.sizes = Append(@, size)]
           = [base_offset |-> record.base_offset, sizes |-> Append(record.sizes, size)]
<1> DEFINE V == Seq(0 .. BlockBytes - 1)
<1>1. record \in [base_offset : Nat, sizes : V] BY DEF RecordSet
<1> HIDE DEF V
<1>2. record = [base_offset |-> record.base_offset, sizes |-> record.sizes] BY <1>1
<1> DEFINE b == record.base_offset
           s == record.sizes
<1>3. record = [base_offset |-> b, sizes |-> s] BY <1>2
<1> HIDE DEF b, s
<1>4. [record EXCEPT !.sizes = Append(@, size)] = [base_offset |-> b, sizes |-> Append(s, size)] BY <1>3
<1> QED BY <1>4 DEF b, s

\* Recorded() adds the block that was just emitted.
LEMMA RecordAdded ==
  ASSUME RecordsInv, blocks_written \in Nat, ArchiveInv, Len(archive) = blocks_written,
         NEW len \in 1 .. BlockBytes, NEW kind, NEW what, IsEmitted(len, kind, what),
         blocks_written' = blocks_written + 1, offset_records' = Recorded(len)
  PROVE  RecordsInv'
<1> DEFINE R == Len(offset_records)
           E == EntriesPerRecord
           bw == blocks_written
           fresh == [base_offset |-> total_emitted, sizes |-> <<>>]
           records == IF NewRecord(bw) THEN Append(offset_records, fresh) ELSE offset_records
           Q == Len(records)
           old == records[Q]
           new == [old EXCEPT !.sizes = Append(@, len - 1)]
<1>1. /\ R \in Nat /\ E \in Nat \ {0} /\ bw \in Nat /\ BlockBytes \in Nat \ {0}
      /\ HasLen(offset_records, R)
  BY Sizes DEF RecordsInv, HasLen
<1>2. \A r \in 1 .. R :
    /\ IsRecord(archive, offset_records[r], (r - 1) * E)
    /\ (r - 1) * E + Len(offset_records[r].sizes) = IF r = R THEN bw ELSE r * E
  BY DEF RecordsInv
<1>3. /\ NewRecord(bw) => bw = R * E
      /\ ~NewRecord(bw) => R > 0 /\ Len(offset_records[R].sizes) < E
  BY LastRecord
<1>4. \A r \in 1 .. R :
    /\ (r - 1) * E \in Nat
    /\ (r - 1) * E + Len(offset_records[r].sizes) <= bw
    /\ \A i \in 1 .. Len(offset_records[r].sizes) :
         archive'[(r - 1) * E + i] = archive[(r - 1) * E + i]
  BY RecordsStay, SMTT(30) DEF IsEmitted
<1>5. archive'[bw + 1].at = total_emitted /\ archive'[bw + 1].len = len /\ total_emitted \in Nat
  BY DEF IsEmitted, ArchiveInv
<1>6. offset_records' = [records EXCEPT ![Q].sizes = Append(@, len - 1)] BY DEF Recorded
<1>7. /\ HasLen(records, Q) /\ Q \in Nat \ {0}
      /\ Q = IF NewRecord(bw) THEN R + 1 ELSE R
      /\ \A r \in 1 .. R : records[r] = offset_records[r]
      /\ NewRecord(bw) => old = fresh
  <2>1. CASE NewRecord(bw)
    <3>1. records = Append(offset_records, fresh) BY <2>1
    <3> HIDE DEF records, fresh, R
    <3>2. IsAppend(records, offset_records, R, fresh) BY <1>1, <3>1, SequenceAppend
    <3>3. /\ HasLen(records, R + 1)
          /\ \A i \in 1 .. R + 1 : records[i] = IF i <= R THEN offset_records[i] ELSE fresh
      BY <3>2 DEF IsAppend
    <3>4. Q = R + 1 BY <3>3, SequenceLength
    <3> QED BY <1>1, <2>1, <3>3, <3>4
  <2>2. CASE ~NewRecord(bw)
    <3>1. records = offset_records BY <2>2
    <3> QED BY <1>1, <1>3, <2>2, <3>1
  <2> QED BY <2>1, <2>2
<1> HIDE DEF records, fresh
<1>8. /\ HasLen(offset_records', Q) /\ Len(offset_records') = Q
      /\ offset_records'[Q] = new
      /\ \A r \in 1 .. Q : r # Q => offset_records'[r] = records[r]
  <2>1. DOMAIN records = 1 .. Q /\ Q \in 1 .. Q /\ Q \in Nat BY <1>7, SequenceLength
  <2>2. records = [i \in 1 .. Q |-> records[i]] BY <1>7 DEF HasLen
  <2> DEFINE s == offset_records'
  <2>3. s = [i \in 1 .. Q |-> IF i = Q THEN new ELSE records[i]] BY <1>6, <2>1, <2>2
  <2> HIDE DEF s, new, Q
  <2>4. HasLen(s, Q) BY <2>1, <2>3 DEF HasLen
  <2>5. Len(s) = Q BY <2>4, SequenceLength
  <2> QED BY <2>1, <2>3, <2>4, <2>5 DEF s
<1> DEFINE a == (Q - 1) * E
<1>9. /\ old \in RecordSet /\ Len(old.sizes) \in 0 .. E - 1
      /\ a + Len(old.sizes) = bw /\ a \in Nat
      /\ old.base_offset = archive'[a + 1].at
      /\ \A i \in 1 .. Len(old.sizes) : old.sizes[i] = archive'[a + i].len - 1
  <2>1. CASE NewRecord(bw)
    <3>1. /\ Q = R + 1 /\ Q - 1 = R /\ old.base_offset = total_emitted /\ old.sizes = <<>>
          /\ old = [base_offset |-> total_emitted, sizes |-> <<>>]
      BY <1>1, <1>3, <1>7, <2>1 DEF fresh
    <3>2. a = bw BY <1>3, <2>1, <3>1
    <3>3. <<>> \in Seq(0 .. BlockBytes - 1) /\ Len(<<>>) = 0 /\ 1 .. 0 = {} OBVIOUS
    <3>4. old \in RecordSet BY <1>5, <3>1, <3>3 DEF RecordSet
    <3> HIDE DEF a, old
    <3> QED BY <1>1, <1>5, <3>1, <3>2, <3>3, <3>4
  <2>2. CASE ~NewRecord(bw)
    <3>1. Q = R /\ R \in 1 .. R /\ old = offset_records[R] BY <1>1, <1>3, <1>7, <2>2
    <3>2. IsRecord(archive, old, a) /\ a + Len(old.sizes) = bw /\ Len(old.sizes) < E /\ a \in Nat
      BY <1>2, <1>3, <1>4, <2>2, <3>1
    <3>3. \A i \in 1 .. Len(old.sizes) : archive'[a + i] = archive[a + i] BY <1>4, <3>1
    <3> HIDE DEF a, old
    <3>4. /\ old \in RecordSet
          /\ Len(old.sizes) \in 1 .. E /\ old.base_offset = archive[a + 1].at
          /\ \A i \in 1 .. Len(old.sizes) : old.sizes[i] = archive[a + i].len - 1
      BY <3>2 DEF IsRecord
    <3>5. 1 \in 1 .. Len(old.sizes) /\ Len(old.sizes) \in 0 .. E - 1 BY <1>1, <3>2, <3>4
    <3> QED BY <3>2, <3>3, <3>4, <3>5
  <2> QED BY <2>1, <2>2
<1> DEFINE L == Len(old.sizes)
<1>10. /\ new.sizes = Append(old.sizes, len - 1) /\ new.base_offset = old.base_offset
       /\ new \in RecordSet /\ Len(new.sizes) = L + 1 /\ L \in Nat
       /\ \A i \in 1 .. L : new.sizes[i] = old.sizes[i]
       /\ new.sizes[L + 1] = len - 1
  <2>1. old \in RecordSet /\ len - 1 \in 0 .. BlockBytes - 1 BY <1>1, <1>9
  <2> HIDE DEF old
  <2>2. new = [base_offset |-> old.base_offset, sizes |-> Append(old.sizes, len - 1)]
    BY <2>1, RecordExtended
  <2>3. old.sizes \in Seq(0 .. BlockBytes - 1) /\ old.base_offset \in Nat BY <2>1 DEF RecordSet
  <2> HIDE DEF new
  <2> QED BY <2>1, <2>2, <2>3, AppendProperties DEF RecordSet
<1> HIDE DEF old, new, a
<1>s. a + L = bw /\ L \in 0 .. E - 1 BY <1>9
<1> HIDE DEF L
<1>11. ASSUME NEW i \in 1 .. L + 1 PROVE new.sizes[i] = archive'[a + i].len - 1
  <2>1. CASE i = L + 1
    <3>1. a + i = bw + 1 BY <1>1, <1>9, <1>10, <1>s, <2>1
    <3> QED BY <1>5, <1>10, <2>1, <3>1
  <2>2. CASE i # L + 1
    <3>1. i \in 1 .. L BY <1>10, <2>2
    <3> QED BY <1>9, <1>10, <3>1 DEF L
  <2> QED BY <2>1, <2>2
<1>12. IsRecord(archive', new, a) /\ L + 1 \in 1 .. E
  <2>1. L + 1 \in 1 .. E BY <1>1, <1>10, <1>s
  <2> QED BY <1>9, <1>10, <1>11, <2>1 DEF IsRecord
<1>13. a + (L + 1) = bw + 1 BY <1>1, <1>9, <1>10, <1>s
<1>14. ASSUME NEW r \in 1 .. Q
    PROVE  /\ IsRecord(archive', offset_records'[r], (r - 1) * E)
           /\ (r - 1) * E + Len(offset_records'[r].sizes) = IF r = Q THEN bw + 1 ELSE r * E
  <2>1. CASE r = Q BY <1>8, <1>10, <1>12, <1>13, <2>1 DEF a
  <2>2. CASE r # Q
    <3>1. r \in 1 .. R /\ (r # R \/ NewRecord(bw)) /\ (r = R => NewRecord(bw)) BY <1>1, <1>7, <2>2
    <3>2. offset_records'[r] = offset_records[r] BY <1>7, <1>8, <2>2, <3>1
    <3>3. (r - 1) * E + Len(offset_records[r].sizes) = r * E BY <1>2, <1>3, <3>1
    <3>4. IsRecord(archive, offset_records[r], (r - 1) * E) BY <1>2, <3>1
    <3>5. \A i \in 1 .. Len(offset_records[r].sizes) :
        archive'[(r - 1) * E + i] = archive[(r - 1) * E + i]
      BY <1>4, <3>1
    <3>6. 1 \in 1 .. Len(offset_records[r].sizes) BY <3>4 DEF IsRecord
    <3>7. IsRecord(archive', offset_records[r], (r - 1) * E) BY <3>4, <3>5, <3>6 DEF IsRecord
    <3> QED BY <2>2, <3>2, <3>3, <3>7
  <2> QED BY <2>1, <2>2
<1>15. offset_records' # <<>> BY <1>7, <1>8
<1> QED BY <1>8, <1>14, <1>15 DEF RecordsInv

\* store_block() keeps the archive, its records and its blocks as they should be.
LEMMA BlockStored ==
  ASSUME InputInv, ArchiveInv, BlocksInv, RecordsInv, BeforeFlush, files' = files,
         StoreBlock(BlockOf(blocks_written))
  PROVE  /\ ArchiveInv' /\ RecordsInv'
         /\ blocks_written' = blocks_written + 1 /\ Len(archive') = blocks_written + 1
         /\ block_buffer' = <<>>
         /\ \A b \in 1 .. blocks_written + 1 :
              /\ archive'[b].what = BlockOf(b - 1)
              /\ archive'[b].len <= BlockBytes
              /\ archive'[b].kind = IF archive'[b].len = BlockBytes THEN "raw" ELSE "zstd"
         /\ \E len \in Nat : /\ total_emitted' = total_emitted + len
                             /\ pending_output' = pending_output + len
<1> DEFINE bw == blocks_written
           data == BlockOf(bw)
<1>1. /\ bw \in Nat /\ Len(archive) = bw
      /\ \A b \in 1 .. bw :
           /\ archive[b].what = BlockOf(b - 1)
           /\ archive[b].len <= BlockBytes
           /\ archive[b].kind = IF archive[b].len = BlockBytes THEN "raw" ELSE "zstd"
  BY DEF InputInv, BlocksInv
<1> HIDE DEF data
<1>2. PICK n \in StoredLengths :
    LET out_len == IF WorthCompressing(n) THEN n ELSE BlockBytes IN
    /\ Emit(IF WorthCompressing(n) THEN "zstd" ELSE "raw", data, out_len)
    /\ offset_records' = Recorded(out_len)
    /\ blocks_written' = blocks_written + 1
    /\ block_buffer' = <<>>
  BY DEF StoreBlock, data
<1> DEFINE len == IF WorthCompressing(n) THEN n ELSE BlockBytes
           kind == IF WorthCompressing(n) THEN "zstd" ELSE "raw"
<1>3. Emit(kind, data, len) /\ offset_records' = Recorded(len) /\ bw' = bw + 1 /\ block_buffer' = <<>>
  BY <1>2
<1>4. /\ len \in 1 .. BlockBytes /\ len \in Nat \ {0} /\ BlockBytes \in Nat
      /\ kind = IF len = BlockBytes THEN "raw" ELSE "zstd"
  BY ZarAssumption, Sizes DEF WorthCompressing
<1> HIDE DEF len, kind
<1>5. ArchiveInv' /\ IsEmitted(len, kind, data) BY <1>3, <1>4, Emitted
<1>6. RecordsInv' BY <1>1, <1>3, <1>4, <1>5, RecordAdded
<1>7. /\ Len(archive') = bw + 1
      /\ \A i \in 1 .. bw : archive'[i] = archive[i]
      /\ archive'[bw + 1].len = len /\ archive'[bw + 1].kind = kind /\ archive'[bw + 1].what = data
      /\ total_emitted' = total_emitted + len /\ pending_output' = pending_output + len
  BY <1>1, <1>5 DEF IsEmitted
<1>8. ASSUME NEW b \in 1 .. bw + 1
      PROVE  /\ archive'[b].what = BlockOf(b - 1)
             /\ archive'[b].len <= BlockBytes
             /\ archive'[b].kind = IF archive'[b].len = BlockBytes THEN "raw" ELSE "zstd"
  <2>1. CASE b = bw + 1
    <3>1. b - 1 = bw BY <1>1, <2>1
    <3> QED BY <1>4, <1>7, <2>1, <3>1 DEF data
  <2>2. CASE b # bw + 1
    <3>1. b \in 1 .. bw BY <1>1, <2>2
    <3> QED BY <1>1, <1>7, <3>1
  <2> QED BY <2>1, <2>2
<1> QED BY <1>3, <1>4, <1>5, <1>6, <1>7, <1>8

-----------------------------------------------------------------------------
(* The steps of advance() that read files                                    *)

\* What is known in them.
Reading ==
  /\ InputInv /\ ArchiveInv /\ BlocksInv /\ RecordsInv /\ BeforeFlush
  /\ pending_output \in Nat /\ files' = files

\* And what they keep; the phase is another thing.
ReadingKept ==
  /\ InputInv' /\ ArchiveInv' /\ BlocksInv' /\ RecordsInv'
  /\ \E len \in Nat : /\ total_emitted' = total_emitted + len
                      /\ pending_output' = pending_output + len

\* The listing of a session is one of those given.
LEMMA ListingTyped ==
  ASSUME InputInv
  PROVE  /\ files \in Seq(FileEntry) /\ SourceLaidOut /\ SourceSize \in Nat
         /\ Len(files) \in Nat
         /\ \A f \in 1 .. Len(files) : files[f].size \in Nat
<1>1. files \in Seq(FileEntry) BY ZarAssumption DEF InputInv, FileEntry
<1>2. Len(files) \in Nat /\ \A f \in 1 .. Len(files) : files[f] \in FileEntry BY <1>1
<1>3. \A f \in 1 .. Len(files) : files[f].size \in Nat BY <1>2 DEF FileEntry
<1>4. SourceSize \in Nat
  <2>1. Len(files) + 1 \in 1 .. Len(files) + 1 BY <1>2
  <2> QED BY <1>1, <2>1, FileStarts DEF SourceSize
<1> QED BY <1>1, <1>2, <1>3, <1>4, SourceIsLaidOut

\* The buffer alone changes, or the place in the files.
LEMMA BufferKept ==
  ASSUME Reading, NEW data, KeepBuffer(data), InputInv'
  PROVE  ReadingKept
<1>1. UNCHANGED <<archive, pending_output, total_emitted, offset_records, blocks_written, files>>
  BY DEF KeepBuffer, Reading
<1>2. ArchiveInv' BY <1>1 DEF Reading, ArchiveInv
<1>3. RecordsInv' BY <1>1 DEF Reading, RecordsInv
<1>4. \A b : BlockOf(b)' = BlockOf(b) BY <1>1, SourceStays
<1>5. BlocksInv' BY <1>1, <1>4 DEF Reading, BlocksInv
<1>6. total_emitted' = total_emitted + 0 /\ pending_output' = pending_output + 0
  BY <1>1 DEF Reading, ArchiveInv
<1> QED BY <1>2, <1>3, <1>5, <1>6 DEF ReadingKept

\* A block is stored.
LEMMA BlockKept ==
  ASSUME Reading, NEW data, data = BlockOf(blocks_written), StoreBlock(data), InputInv'
  PROVE  ReadingKept
<1>1. /\ ArchiveInv' /\ RecordsInv' /\ blocks_written' = blocks_written + 1
      /\ Len(archive') = blocks_written + 1
      /\ \A b \in 1 .. blocks_written + 1 :
           /\ archive'[b].what = BlockOf(b - 1)
           /\ archive'[b].len <= BlockBytes
           /\ archive'[b].kind = IF archive'[b].len = BlockBytes THEN "raw" ELSE "zstd"
      /\ \E len \in Nat : /\ total_emitted' = total_emitted + len
                          /\ pending_output' = pending_output + len
  BY BlockStored DEF Reading
<1>2. \A b : BlockOf(b)' = BlockOf(b) BY SourceStays DEF Reading
<1>3. blocks_written \in Nat /\ blocks_written + 1 <= blocks_written + 1 BY DEF Reading, InputInv
<1>4. BlocksInv' BY <1>1, <1>2, <1>3 DEF BlocksInv
<1> QED BY <1>1, <1>4 DEF ReadingKept

\* The source goes on after a place before its end.
LEMMA FileFits ==
  ASSUME InputInv, current_file <= Len(files)
  PROVE  /\ current_file \in 1 .. Len(files)
         /\ FileStart(files, current_file) \in Nat
         /\ FileStart(files, current_file + 1)
              = FileStart(files, current_file) + files[current_file].size
         /\ FileStart(files, current_file + 1) <= SourceSize
<1>1. files \in Seq(FileEntry) /\ Len(files) \in Nat BY ListingTyped
<1>2. current_file \in 1 .. Len(files) BY <1>1 DEF InputInv
<1>3. /\ current_file \in 1 .. Len(files) + 1 /\ current_file + 1 \in 1 .. Len(files) + 1
      /\ Len(files) + 1 \in 1 .. Len(files) + 1
  BY <1>1, <1>2
<1> QED BY <1>1, <1>2, <1>3, FileStarts, FileStartsRise DEF SourceSize

\* The last block, if there is one, is padded.
LEMMA FlushBlocksStep ==
  ASSUME Reading, FlushBlocks
  PROVE  ReadingKept
<1> DEFINE bw == blocks_written
           n == Len(block_buffer)
<1>1. /\ phase' = "AlignPad" /\ current_file > Len(files) /\ phase = "Streaming"
      /\ current_file' = current_file /\ current_file_pos' = current_file_pos
      /\ files' = files
  BY DEF FlushBlocks, Streaming, planVars
<1>2. /\ current_file \in 1 .. Len(files) + 1 /\ current_file_pos = 0 /\ current_file = Len(files) + 1
      /\ files \in Listings
      /\ bw \in Nat /\ block_buffer \in Seq(Byte) /\ n < BlockBytes /\ n \in Nat
      /\ \A i \in 1 .. n : block_buffer[i] = SourceBytes[bw * BlockBytes + i]
      /\ bw * BlockBytes + n = FileStart(files, current_file) + current_file_pos
  <2>1. Len(files) \in Nat BY ListingTyped DEF Reading
  <2> QED BY <1>1, <2>1 DEF Reading, InputInv
<1>3. SourceSize \in Nat /\ BlockBytes \in Nat \ {0} BY ListingTyped, Sizes DEF Reading
<1>4. bw * BlockBytes + n = SourceSize /\ bw * BlockBytes \in Nat /\ (bw + 1) * BlockBytes = bw * BlockBytes + BlockBytes
  BY <1>2, <1>3 DEF SourceSize
<1>5. ~BeforeFlush' /\ Len(files') = Len(files) /\ SourceSize' = SourceSize /\ SourceBytes' = SourceBytes
  BY <1>1, SourceStays DEF BeforeFlush
<1>6. ASSUME block_buffer' = <<>>, bw' \in Nat, SourceSize <= bw' * BlockBytes PROVE InputInv'
  <2>1. <<>> \in Seq(Byte) /\ Len(<<>>) = 0 /\ 1 .. 0 = {} /\ 0 < BlockBytes BY <1>3
  <2>2. ~(current_file' <= Len(files')) BY <1>1, <1>2, <1>5, ListingTyped DEF Reading
  <2> QED BY <1>1, <1>2, <1>5, <1>6, <2>1, <2>2 DEF InputInv
<1>7. CASE block_buffer = <<>>
  <2>1. KeepBuffer(<<>>) BY <1>7 DEF FlushBlocks
  <2>2. block_buffer' = <<>> /\ bw' = bw BY <2>1 DEF KeepBuffer
  <2>3. SourceSize <= bw' * BlockBytes
    <3>1. n = 0 BY <1>7
    <3> QED BY <1>3, <1>4, <2>2, <3>1
  <2>4. InputInv' BY <1>2, <1>6, <2>2, <2>3
  <2> QED BY <2>1, <2>4, BufferKept
<1>8. CASE block_buffer # <<>>
  <2>1. StoreBlock(PaddedBlock) BY <1>8 DEF FlushBlocks
  <2>2. PaddedBlock = BlockOf(bw)
    <3> DEFINE pad == [i \in 1 .. BlockBytes - n |-> ZeroByte]
               r == block_buffer \o pad
    <3>1. HasLen(block_buffer, n) /\ HasLen(pad, BlockBytes - n) /\ n + (BlockBytes - n) = BlockBytes
      <4>1. BlockBytes - n \in Nat BY <1>2, <1>3
      <4>2. block_buffer \in Seq(Byte) BY <1>2
      <4>3. HasLen(block_buffer, n) BY <4>2, SeqIsSequence
      <4>4. HasLen(pad, BlockBytes - n) BY <4>1 DEF HasLen
      <4>5. n + (BlockBytes - n) = BlockBytes BY <1>2, <1>3
      <4> QED BY <4>3, <4>4, <4>5
    <3>2. IsConcat(r, block_buffer, n, pad, BlockBytes - n) BY <3>1, SequenceConcat
    <3>3. /\ HasLen(r, BlockBytes)
          /\ \A i \in 1 .. BlockBytes : r[i] = IF i <= n THEN block_buffer[i] ELSE pad[i - n]
      BY <3>1, <3>2 DEF IsConcat
    <3>4. ASSUME NEW i \in 1 .. BlockBytes PROVE r[i] = BlockOf(bw)[i]
      <4>1. BlockOf(bw)[i] = IF bw * BlockBytes + i \in 1 .. SourceSize
          THEN SourceBytes[bw * BlockBytes + i] ELSE ZeroByte
        BY DEF BlockOf
      <4>2. CASE i <= n
        <5>1. i \in 1 .. n /\ bw * BlockBytes + i \in 1 .. SourceSize BY <1>2, <1>3, <1>4, <4>2
        <5> QED BY <1>2, <3>3, <4>1, <4>2, <5>1
      <4>3. CASE ~(i <= n)
        <5>1. i - n \in 1 .. BlockBytes - n /\ bw * BlockBytes + i \notin 1 .. SourceSize
          BY <1>2, <1>3, <1>4, <4>3
        <5>2. pad[i - n] = ZeroByte BY <5>1
        <5> HIDE DEF pad, r, n
        <5> QED BY <3>3, <4>1, <4>3, <5>1, <5>2
      <4> QED BY <4>2, <4>3
    <3>5. HasLen(BlockOf(bw), BlockBytes) BY <1>3 DEF HasLen, BlockOf
    <3>6. r = BlockOf(bw) BY <3>3, <3>4, <3>5, SequenceSame
    <3> QED BY <3>6 DEF PaddedBlock
  <2>3. block_buffer' = <<>> /\ bw' = bw + 1 BY <2>1 DEF StoreBlock
  <2>4. SourceSize <= bw' * BlockBytes BY <1>2, <1>3, <1>4, <2>3
  <2>5. InputInv' BY <1>2, <1>6, <2>3, <2>4
  <2> QED BY <2>1, <2>2, <2>5, BlockKept
<1> QED BY <1>7, <1>8

\* A file that has no byte left is left behind.
LEMMA SkipFileStep ==
  ASSUME Reading, SkipFile
  PROVE  ReadingKept
<1>1. /\ phase' = phase /\ files' = files /\ current_file <= Len(files)
      /\ files[current_file].size - current_file_pos = 0
      /\ current_file' = current_file + 1 /\ current_file_pos' = 0
      /\ KeepBuffer(block_buffer)
  BY DEF SkipFile, InFile, planVars, RemainingInFile
<1>2. block_buffer' = block_buffer /\ blocks_written' = blocks_written BY <1>1 DEF KeepBuffer
<1>3. /\ current_file \in 1 .. Len(files) /\ FileStart(files, current_file) \in Nat
      /\ FileStart(files, current_file + 1)
           = FileStart(files, current_file) + files[current_file].size
  BY <1>1, FileFits DEF Reading
<1>4. /\ SourceBytes' = SourceBytes /\ Len(files) \in Nat /\ files[current_file].size \in Nat
      /\ \A f \in 1 .. Len(files) : files[f].size \in Nat
  BY <1>1, <1>3, SourceStays, ListingTyped DEF Reading
<1>5. /\ current_file_pos \in Nat /\ files \in Listings /\ BeforeFlush
      /\ blocks_written \in Nat /\ block_buffer \in Seq(Byte) /\ Len(block_buffer) < BlockBytes
      /\ \A i \in 1 .. Len(block_buffer) :
           block_buffer[i] = SourceBytes[blocks_written * BlockBytes + i]
      /\ blocks_written * BlockBytes + Len(block_buffer)
           = FileStart(files, current_file) + current_file_pos
  BY DEF Reading, InputInv
<1>6. /\ current_file' \in 1 .. Len(files) + 1 /\ 0 \in Nat
      /\ current_file' <= Len(files) => 0 <= files[current_file'].size
      /\ FileStart(files, current_file + 1) + 0 = FileStart(files, current_file) + current_file_pos
  BY <1>1, <1>3, <1>4, <1>5
<1>7. BeforeFlush' BY <1>1, <1>5 DEF BeforeFlush
<1>8. InputInv' BY <1>1, <1>2, <1>4, <1>5, <1>6, <1>7 DEF InputInv
<1> QED BY <1>1, <1>8, BufferKept

\* A read that throws leaves everything as it was.
LEMMA FileReadFailsStep ==
  ASSUME Reading, FileReadFails
  PROVE  ReadingKept
<1>1. /\ phase' = phase /\ files' = files
      /\ current_file' = current_file /\ current_file_pos' = current_file_pos
      /\ KeepBuffer(block_buffer)
  BY DEF FileReadFails, planVars, BufferTruncated
<1>2. block_buffer' = block_buffer /\ blocks_written' = blocks_written BY <1>1 DEF KeepBuffer
<1>3. SourceBytes' = SourceBytes /\ SourceSize' = SourceSize /\ BeforeFlush' = BeforeFlush
  BY <1>1, SourceStays DEF BeforeFlush
<1>4. InputInv' BY <1>1, <1>2, <1>3 DEF Reading, InputInv
<1> QED BY <1>1, <1>4, BufferKept

\* Bytes are read into the buffer, and a block is stored when it is full.
LEMMA ReadFileStep ==
  ASSUME Reading, ReadFile
  PROVE  ReadingKept
<1> DEFINE bw == blocks_written
           n == Len(block_buffer)
           f == current_file
           p == current_file_pos
           size == files[current_file].size
           base == bw * BlockBytes
           bytes == BytesRead(ToRead)
           buffer == block_buffer \o bytes
<1>1. /\ phase' = phase /\ files' = files /\ f <= Len(files) /\ size - p > 0
      /\ f' = IF p + ToRead >= size THEN f + 1 ELSE f
      /\ p' = IF p + ToRead >= size THEN 0 ELSE p + ToRead
      /\ IF Len(buffer) = BlockBytes THEN StoreBlock(buffer) ELSE KeepBuffer(buffer)
  BY DEF ReadFile, InFile, planVars, RemainingInFile
<1>2. /\ f \in 1 .. Len(files) /\ FileStart(files, f) \in Nat
      /\ FileStart(files, f + 1) = FileStart(files, f) + size
      /\ FileStart(files, f + 1) <= SourceSize
  BY <1>1, FileFits DEF Reading
<1>3. /\ SourceBytes' = SourceBytes /\ Len(files) \in Nat /\ size \in Nat /\ SourceLaidOut
      /\ SourceSize \in Nat /\ BlockBytes \in Nat \ {0}
      /\ \A h \in 1 .. Len(files) : files[h].size \in Nat
  BY <1>1, <1>2, SourceStays, ListingTyped, Sizes DEF Reading
<1>4. /\ p \in Nat /\ files \in Listings /\ BeforeFlush
      /\ bw \in Nat /\ block_buffer \in Seq(Byte) /\ n < BlockBytes /\ n \in Nat
      /\ \A i \in 1 .. n : block_buffer[i] = SourceBytes[base + i]
      /\ base + n = FileStart(files, f) + p
  BY DEF Reading, InputInv
<1>5. base \in Nat /\ (bw + 1) * BlockBytes = base + BlockBytes BY <1>3, <1>4
<1> DEFINE w == ToRead
<1>6. w \in Nat \ {0} /\ n + w <= BlockBytes /\ p + w <= size
  <2>1. w = IF BlockBytes - n <= size - p THEN BlockBytes - n ELSE size - p
    <3>1. BlockBytes - n \in Int /\ size - p \in Int BY <1>3, <1>4
    <3> QED BY <3>1, MinPair DEF ToRead, RemainingInFile
  <2> HIDE DEF w, n, size, p
  <2> QED BY <1>1, <1>3, <1>4, <2>1
<1>s. size = files[f].size OBVIOUS
<1> DEFINE st == FileStart(files, f)
<1> HIDE DEF w, base, n, f, p, size, bw
<1>a. /\ p \in Nat /\ n \in Nat /\ size \in Nat /\ st \in Nat /\ base \in Nat /\ w \in Nat \ {0}
      /\ n + w <= BlockBytes /\ p + w <= size /\ base + n = st + p /\ SourceSize \in Nat
      /\ st + size <= SourceSize /\ n < BlockBytes /\ BlockBytes \in Nat
  BY <1>2, <1>3, <1>4, <1>5, <1>6
<1>b. st = FileStart(files, f) /\ FileStart(files, f + 1) = st + size BY <1>2
<1> HIDE DEF st
<1>7. /\ HasLen(bytes, w)
      /\ \A i \in 1 .. w : bytes[i] = [file |-> f, pos |-> p + i]
  BY <1>6 DEF BytesRead, HasLen, w, f, p, bytes
<1>8. ASSUME NEW i \in 1 .. w
      PROVE  bytes[i] = SourceBytes[base + (n + i)] /\ bytes[i] \in Byte /\ base + (n + i) \in 1 .. SourceSize
  <2>a. p + i \in 1 .. size /\ base + (n + i) = st + (p + i) /\ st + (p + i) \in 1 .. SourceSize BY <1>a
  <2>1. p + i \in 1 .. size /\ base + (n + i) = FileStart(files, f) + (p + i) BY <1>b, <2>a
  <2>2. SourceBytes[FileStart(files, f) + (p + i)] = [file |-> f, pos |-> p + i]
    BY <1>2, <1>3, <1>s, <2>1 DEF SourceLaidOut
  <2>3. FileStart(files, f) + (p + i) \in 1 .. SourceSize BY <1>b, <2>a
  <2>4. [file |-> f, pos |-> p + i] \in Byte BY <1>2, <1>3, <1>4 DEF Byte
  <2> QED BY <1>7, <2>1, <2>2, <2>3, <2>4
<1> HIDE DEF bytes
<1>9. /\ HasLen(buffer, n + w)
      /\ \A i \in 1 .. n + w : buffer[i] = IF i <= n THEN block_buffer[i] ELSE bytes[i - n]
  <2>1. HasLen(block_buffer, n) BY <1>4, SeqIsSequence DEF n
  <2>2. IsConcat(buffer, block_buffer, n, bytes, w) BY <1>7, <2>1, SequenceConcat
  <2> QED BY <2>2 DEF IsConcat
<1> HIDE DEF buffer
<1>10. ASSUME NEW i \in 1 .. n + w
    PROVE  buffer[i] = SourceBytes[base + i] /\ buffer[i] \in Byte /\ base + i \in 1 .. SourceSize
  <2>1. CASE i <= n
    <3>1. i \in 1 .. n BY <1>4, <2>1
    <3>2. block_buffer[i] \in Byte BY <1>4, <3>1 DEF n
    <3>3. base + i \in 1 .. SourceSize BY <1>a, <3>1
    <3> QED BY <1>4, <1>9, <2>1, <3>1, <3>2, <3>3
  <2>2. CASE ~(i <= n)
    <3>1. i - n \in 1 .. w /\ n + (i - n) = i BY <1>4, <1>6, <2>2
    <3> QED BY <1>8, <1>9, <2>2, <3>1
  <2> QED BY <2>1, <2>2
<1>11. Len(buffer) = n + w /\ buffer \in Seq(Byte) BY <1>9, <1>10, SequenceLength, SequenceIsSeq
<1>12. /\ f' \in 1 .. Len(files) + 1 /\ p' \in Nat
       /\ f' <= Len(files) => p' <= files[f'].size
       /\ f' = Len(files) + 1 => p' = 0
       /\ FileStart(files, f') + p' = base + (n + w)
  <2>1. CASE p + w >= size
    <3>a. f' = f + 1 /\ p' = 0 BY <1>1, <2>1 DEF w
    <3>b. p + w = size BY <1>a, <2>1
    <3>1. f' = f + 1 /\ p' = 0 /\ p + w = size BY <3>a, <3>b
    <3>2. f' \in 1 .. Len(files) + 1 /\ (f' <= Len(files) => f' \in 1 .. Len(files)) BY <1>2, <1>3, <3>1
    <3>c. st + size = base + (n + w) BY <1>a, <3>b
    <3>3. FileStart(files, f') + p' = base + (n + w) BY <1>a, <1>b, <3>1, <3>c
    <3>4. f' <= Len(files) => files[f'].size \in Nat BY <1>3, <3>2
    <3> QED BY <3>1, <3>2, <3>3, <3>4
  <2>2. CASE ~(p + w >= size)
    <3>1. f' = f /\ p' = p + w BY <1>1, <1>3, <1>4, <1>6, <2>2 DEF w
    <3>2. f' \in 1 .. Len(files) + 1 /\ f' # Len(files) + 1 BY <1>2, <1>3, <3>1
    <3>c. st + (p + w) = base + (n + w) BY <1>a
    <3>3. FileStart(files, f') + p' = base + (n + w) BY <1>b, <3>1, <3>c
    <3> QED BY <1>4, <1>6, <1>s, <3>1, <3>2, <3>3
  <2> QED BY <2>1, <2>2
<1>13. BeforeFlush' /\ Len(files') = Len(files) /\ files' = files BY <1>1, <1>4 DEF BeforeFlush
<1>14. CASE Len(buffer) = BlockBytes
  <2>1. StoreBlock(buffer) BY <1>1, <1>14
  <2>2. n + w = BlockBytes BY <1>11, <1>14
  <2>3. buffer = BlockOf(bw)
    <3>1. HasLen(BlockOf(bw), BlockBytes) BY <1>3 DEF HasLen, BlockOf
    <3>2. \A i \in 1 .. BlockBytes : buffer[i] = BlockOf(bw)[i]
      <4>1. \A i \in 1 .. BlockBytes : BlockOf(bw)[i] = SourceBytes[base + i]
        BY <1>10, <2>2 DEF BlockOf, base, bw
      <4> QED BY <1>10, <2>2, <4>1
    <3> QED BY <1>9, <2>2, <3>1, <3>2, SequenceSame
  <2>4. block_buffer' = <<>> /\ bw' = bw + 1 BY <2>1 DEF StoreBlock, bw
  <2>5. bw' * BlockBytes = FileStart(files, f') + p' /\ bw' \in Nat BY <1>4, <1>5, <1>12, <2>2, <2>4
  <2>8. bw' * BlockBytes + 0 = FileStart(files, f') + p' BY <1>3, <2>5
  <2>6. <<>> \in Seq(Byte) /\ Len(<<>>) = 0 /\ 1 .. 0 = {} /\ 0 < BlockBytes BY <1>3
  <2>7. InputInv' BY <1>4, <1>12, <1>13, <2>4, <2>5, <2>6, <2>8 DEF InputInv, f, p, bw
  <2> QED BY <2>1, <2>3, <2>7, BlockKept DEF bw
<1>15. CASE Len(buffer) # BlockBytes
  <2>1. KeepBuffer(buffer) BY <1>1, <1>15
  <2>2. n + w < BlockBytes BY <1>3, <1>4, <1>6, <1>11, <1>15
  <2>3. block_buffer' = buffer /\ bw' = bw BY <2>1 DEF KeepBuffer, bw
  <2>4. \A i \in 1 .. n + w : buffer[i] = SourceBytes[bw * BlockBytes + i] BY <1>10 DEF base
  <2>5. bw' * BlockBytes + Len(block_buffer') = FileStart(files, f') + p' BY <1>11, <1>12, <2>3 DEF base
  <2>6. InputInv' BY <1>3, <1>4, <1>11, <1>12, <1>13, <2>2, <2>3, <2>4, <2>5 DEF InputInv, f, p, bw
  <2> QED BY <2>1, <2>6, BufferKept
<1> QED BY <1>14, <1>15

-----------------------------------------------------------------------------
(* The folds of the directory, as runs                                       *)

\* The walk down one path, component by component.
IsDescendRun(run, base, elements, n, S) ==
  /\ run \in [0 .. n -> S]
  /\ run[0] = base
  /\ \A k \in 1 .. n : run[k] = Descend(run[k - 1], elements[k])

\* A fold of Descend is a run of it, one state for each component.
LEMMA DescendRun ==
  ASSUME NEW n, NEW elements, HasLen(elements, n), NEW S, NEW base \in S,
         \A k \in 1 .. n : \A x \in S : Descend(x, elements[k]) \in S
  PROVE  \E run : /\ IsDescendRun(run, base, elements, n, S)
                  /\ FoldLeft(Descend, base, elements) = run[n]
<1> DEFINE H == [k \in 1 .. n |-> [x \in S |-> Descend(x, elements[k])]]
           iter == CHOOSE f : f = [s \in SUBSET (1 .. n) |->
                     IF s = {} THEN base ELSE Descend(f[s \ {Max(s)}], elements[Max(s)])]
<1>1. n \in Nat /\ DOMAIN elements = 1 .. n BY SequenceLength DEF HasLen
<1>2. FoldLeft(Descend, base, elements) = iter[1 .. n] BY <1>1 DEF FoldLeft, MapThenFoldSet
<1>3. /\ H \in [1 .. n -> [S -> S]]
      /\ \A k \in 1 .. n : \A x \in S : H[k][x] = Descend(x, elements[k])
  OBVIOUS
<1> HIDE DEF H
<1>4. ASSUME NEW s \in SUBSET (1 .. n), s # {}
      PROVE  s \ {Max(s)} \in SUBSET (1 .. n) /\ Max(s) \in 1 .. n
  BY <1>1, <1>4, MaxOfUpTo
<1>5. PICK F \in [SUBSET (1 .. n) -> S] : IsStepFold(F, base, H, n) BY <1>1, <1>3, StepFoldExists
<1>6. F = [s \in SUBSET (1 .. n) |->
    IF s = {} THEN base ELSE Descend(F[s \ {Max(s)}], elements[Max(s)])]
  <2>1. F = [s \in SUBSET (1 .. n) |-> IF s = {} THEN base ELSE H[Max(s)][F[s \ {Max(s)}]]]
    BY <1>5 DEF IsStepFold
  <2>2. \A s \in SUBSET (1 .. n) : (IF s = {} THEN base ELSE H[Max(s)][F[s \ {Max(s)}]])
      = (IF s = {} THEN base ELSE Descend(F[s \ {Max(s)}], elements[Max(s)]))
    BY <1>3, <1>4, <1>5
  <2> QED BY <2>1, <2>2
<1>7. iter = [s \in SUBSET (1 .. n) |->
    IF s = {} THEN base ELSE Descend(iter[s \ {Max(s)}], elements[Max(s)])]
  BY <1>6
<1> HIDE DEF iter
<1>8. Iterates(iter, base, H, n, S)
  <2>1. iter[{}] = base BY <1>7
  <2>2. ASSUME NEW s \in SUBSET (1 .. n), s # {}, iter[s \ {Max(s)}] \in S
        PROVE  iter[s] = H[Max(s)][iter[s \ {Max(s)}]]
    <3>1. iter[s] = Descend(iter[s \ {Max(s)}], elements[Max(s)]) BY <1>7, <2>2
    <3> QED BY <3>1, <1>3, <1>4, <2>2
  <2> QED BY <2>1, <2>2 DEF Iterates
<1>9. PICK run : IsFoldRun(run, base, H, n, S) /\ iter[1 .. n] = run[n] BY ONLY <1>1, <1>3, <1>8, FoldRuns
<1>10. IsDescendRun(run, base, elements, n, S)
  <2>1. run \in [0 .. n -> S] /\ run[0] = base /\ \A k \in 1 .. n : run[k] = H[k][run[k - 1]]
    BY <1>9 DEF IsFoldRun
  <2>2. \A k \in 1 .. n : run[k - 1] \in S BY <1>1, <2>1
  <2> QED BY <1>3, <2>1, <2>2 DEF IsDescendRun
<1> QED BY <1>2, <1>9, <1>10

\* The path tree, file by file.
IsInsertPathRun(run, base, elements, n, S) ==
  /\ run \in [0 .. n -> S]
  /\ run[0] = base
  /\ \A k \in 1 .. n : run[k] = InsertPath(run[k - 1], elements[k])

\* A fold of InsertPath is a run of it.
LEMMA InsertPathRun ==
  ASSUME NEW n, NEW elements, HasLen(elements, n), NEW S, NEW base \in S,
         \A k \in 1 .. n : \A x \in S : InsertPath(x, elements[k]) \in S
  PROVE  \E run : /\ IsInsertPathRun(run, base, elements, n, S)
                  /\ FoldLeft(InsertPath, base, elements) = run[n]
<1> DEFINE H == [k \in 1 .. n |-> [x \in S |-> InsertPath(x, elements[k])]]
           iter == CHOOSE f : f = [s \in SUBSET (1 .. n) |->
                     IF s = {} THEN base ELSE InsertPath(f[s \ {Max(s)}], elements[Max(s)])]
<1>1. n \in Nat /\ DOMAIN elements = 1 .. n BY SequenceLength DEF HasLen
<1>2. FoldLeft(InsertPath, base, elements) = iter[1 .. n] BY <1>1 DEF FoldLeft, MapThenFoldSet
<1>3. /\ H \in [1 .. n -> [S -> S]]
      /\ \A k \in 1 .. n : \A x \in S : H[k][x] = InsertPath(x, elements[k])
  OBVIOUS
<1> HIDE DEF H
<1>4. ASSUME NEW s \in SUBSET (1 .. n), s # {}
      PROVE  s \ {Max(s)} \in SUBSET (1 .. n) /\ Max(s) \in 1 .. n
  BY <1>1, <1>4, MaxOfUpTo
<1>5. PICK F \in [SUBSET (1 .. n) -> S] : IsStepFold(F, base, H, n) BY <1>1, <1>3, StepFoldExists
<1>6. F = [s \in SUBSET (1 .. n) |->
    IF s = {} THEN base ELSE InsertPath(F[s \ {Max(s)}], elements[Max(s)])]
  <2>1. F = [s \in SUBSET (1 .. n) |-> IF s = {} THEN base ELSE H[Max(s)][F[s \ {Max(s)}]]]
    BY <1>5 DEF IsStepFold
  <2>2. \A s \in SUBSET (1 .. n) : (IF s = {} THEN base ELSE H[Max(s)][F[s \ {Max(s)}]])
      = (IF s = {} THEN base ELSE InsertPath(F[s \ {Max(s)}], elements[Max(s)]))
    BY <1>3, <1>4, <1>5
  <2> QED BY <2>1, <2>2
<1>7. iter = [s \in SUBSET (1 .. n) |->
    IF s = {} THEN base ELSE InsertPath(iter[s \ {Max(s)}], elements[Max(s)])]
  BY <1>6
<1> HIDE DEF iter
<1>8. Iterates(iter, base, H, n, S)
  <2>1. iter[{}] = base BY <1>7
  <2>2. ASSUME NEW s \in SUBSET (1 .. n), s # {}, iter[s \ {Max(s)}] \in S
        PROVE  iter[s] = H[Max(s)][iter[s \ {Max(s)}]]
    <3>1. iter[s] = InsertPath(iter[s \ {Max(s)}], elements[Max(s)]) BY <1>7, <2>2
    <3> QED BY <3>1, <1>3, <1>4, <2>2
  <2> QED BY <2>1, <2>2 DEF Iterates
<1>9. PICK run : IsFoldRun(run, base, H, n, S) /\ iter[1 .. n] = run[n] BY ONLY <1>1, <1>3, <1>8, FoldRuns
<1>10. IsInsertPathRun(run, base, elements, n, S)
  <2>1. run \in [0 .. n -> S] /\ run[0] = base /\ \A k \in 1 .. n : run[k] = H[k][run[k - 1]]
    BY <1>9 DEF IsFoldRun
  <2>2. \A k \in 1 .. n : run[k - 1] \in S BY <1>1, <2>1
  <2> QED BY <1>3, <2>1, <2>2 DEF IsInsertPathRun
<1> QED BY <1>2, <1>9, <1>10

\* The names, node by node.
IsInternRun(run, base, elements, n, S) ==
  /\ run \in [0 .. n -> S]
  /\ run[0] = base
  /\ \A k \in 1 .. n : run[k] = Intern(run[k - 1], elements[k])

\* A fold of Intern is a run of it.
LEMMA InternRun ==
  ASSUME NEW n, NEW elements, HasLen(elements, n), NEW S, NEW base \in S,
         \A k \in 1 .. n : \A x \in S : Intern(x, elements[k]) \in S
  PROVE  \E run : /\ IsInternRun(run, base, elements, n, S)
                  /\ FoldLeft(Intern, base, elements) = run[n]
<1> DEFINE H == [k \in 1 .. n |-> [x \in S |-> Intern(x, elements[k])]]
           iter == CHOOSE f : f = [s \in SUBSET (1 .. n) |->
                     IF s = {} THEN base ELSE Intern(f[s \ {Max(s)}], elements[Max(s)])]
<1>1. n \in Nat /\ DOMAIN elements = 1 .. n BY SequenceLength DEF HasLen
<1>2. FoldLeft(Intern, base, elements) = iter[1 .. n] BY <1>1 DEF FoldLeft, MapThenFoldSet
<1>3. /\ H \in [1 .. n -> [S -> S]]
      /\ \A k \in 1 .. n : \A x \in S : H[k][x] = Intern(x, elements[k])
  OBVIOUS
<1> HIDE DEF H
<1>4. ASSUME NEW s \in SUBSET (1 .. n), s # {}
      PROVE  s \ {Max(s)} \in SUBSET (1 .. n) /\ Max(s) \in 1 .. n
  BY <1>1, <1>4, MaxOfUpTo
<1>5. PICK F \in [SUBSET (1 .. n) -> S] : IsStepFold(F, base, H, n) BY <1>1, <1>3, StepFoldExists
<1>6. F = [s \in SUBSET (1 .. n) |->
    IF s = {} THEN base ELSE Intern(F[s \ {Max(s)}], elements[Max(s)])]
  <2>1. F = [s \in SUBSET (1 .. n) |-> IF s = {} THEN base ELSE H[Max(s)][F[s \ {Max(s)}]]]
    BY <1>5 DEF IsStepFold
  <2>2. \A s \in SUBSET (1 .. n) : (IF s = {} THEN base ELSE H[Max(s)][F[s \ {Max(s)}]])
      = (IF s = {} THEN base ELSE Intern(F[s \ {Max(s)}], elements[Max(s)]))
    BY <1>3, <1>4, <1>5
  <2> QED BY <2>1, <2>2
<1>7. iter = [s \in SUBSET (1 .. n) |->
    IF s = {} THEN base ELSE Intern(iter[s \ {Max(s)}], elements[Max(s)])]
  BY <1>6
<1> HIDE DEF iter
<1>8. Iterates(iter, base, H, n, S)
  <2>1. iter[{}] = base BY <1>7
  <2>2. ASSUME NEW s \in SUBSET (1 .. n), s # {}, iter[s \ {Max(s)}] \in S
        PROVE  iter[s] = H[Max(s)][iter[s \ {Max(s)}]]
    <3>1. iter[s] = Intern(iter[s \ {Max(s)}], elements[Max(s)]) BY <1>7, <2>2
    <3> QED BY <3>1, <1>3, <1>4, <2>2
  <2> QED BY <2>1, <2>2 DEF Iterates
<1>9. PICK run : IsFoldRun(run, base, H, n, S) /\ iter[1 .. n] = run[n] BY ONLY <1>1, <1>3, <1>8, FoldRuns
<1>10. IsInternRun(run, base, elements, n, S)
  <2>1. run \in [0 .. n -> S] /\ run[0] = base /\ \A k \in 1 .. n : run[k] = H[k][run[k - 1]]
    BY <1>9 DEF IsFoldRun
  <2>2. \A k \in 1 .. n : run[k - 1] \in S BY <1>1, <2>1
  <2> QED BY <1>3, <2>1, <2>2 DEF IsInternRun
<1> QED BY <1>2, <1>9, <1>10

\* The queue, node by node.
IsEnqueueRun(run, base, elements, n, S) ==
  /\ run \in [0 .. n -> S]
  /\ run[0] = base
  /\ \A k \in 1 .. n : run[k] = Enqueue(run[k - 1], elements[k])

\* A fold of Enqueue is a run of it.
LEMMA EnqueueRun ==
  ASSUME NEW n, NEW elements, HasLen(elements, n), NEW S, NEW base \in S,
         \A k \in 1 .. n : \A x \in S : Enqueue(x, elements[k]) \in S
  PROVE  \E run : /\ IsEnqueueRun(run, base, elements, n, S)
                  /\ FoldLeft(Enqueue, base, elements) = run[n]
<1> DEFINE H == [k \in 1 .. n |-> [x \in S |-> Enqueue(x, elements[k])]]
           iter == CHOOSE f : f = [s \in SUBSET (1 .. n) |->
                     IF s = {} THEN base ELSE Enqueue(f[s \ {Max(s)}], elements[Max(s)])]
<1>1. n \in Nat /\ DOMAIN elements = 1 .. n BY SequenceLength DEF HasLen
<1>2. FoldLeft(Enqueue, base, elements) = iter[1 .. n] BY <1>1 DEF FoldLeft, MapThenFoldSet
<1>3. /\ H \in [1 .. n -> [S -> S]]
      /\ \A k \in 1 .. n : \A x \in S : H[k][x] = Enqueue(x, elements[k])
  OBVIOUS
<1> HIDE DEF H
<1>4. ASSUME NEW s \in SUBSET (1 .. n), s # {}
      PROVE  s \ {Max(s)} \in SUBSET (1 .. n) /\ Max(s) \in 1 .. n
  BY <1>1, <1>4, MaxOfUpTo
<1>5. PICK F \in [SUBSET (1 .. n) -> S] : IsStepFold(F, base, H, n) BY <1>1, <1>3, StepFoldExists
<1>6. F = [s \in SUBSET (1 .. n) |->
    IF s = {} THEN base ELSE Enqueue(F[s \ {Max(s)}], elements[Max(s)])]
  <2>1. F = [s \in SUBSET (1 .. n) |-> IF s = {} THEN base ELSE H[Max(s)][F[s \ {Max(s)}]]]
    BY <1>5 DEF IsStepFold
  <2>2. \A s \in SUBSET (1 .. n) : (IF s = {} THEN base ELSE H[Max(s)][F[s \ {Max(s)}]])
      = (IF s = {} THEN base ELSE Enqueue(F[s \ {Max(s)}], elements[Max(s)]))
    BY <1>3, <1>4, <1>5
  <2> QED BY <2>1, <2>2
<1>7. iter = [s \in SUBSET (1 .. n) |->
    IF s = {} THEN base ELSE Enqueue(iter[s \ {Max(s)}], elements[Max(s)])]
  BY <1>6
<1> HIDE DEF iter
<1>8. Iterates(iter, base, H, n, S)
  <2>1. iter[{}] = base BY <1>7
  <2>2. ASSUME NEW s \in SUBSET (1 .. n), s # {}, iter[s \ {Max(s)}] \in S
        PROVE  iter[s] = H[Max(s)][iter[s \ {Max(s)}]]
    <3>1. iter[s] = Enqueue(iter[s \ {Max(s)}], elements[Max(s)]) BY <1>7, <2>2
    <3> QED BY <3>1, <1>3, <1>4, <2>2
  <2> QED BY <2>1, <2>2 DEF Iterates
<1>9. PICK run : IsFoldRun(run, base, H, n, S) /\ iter[1 .. n] = run[n] BY ONLY <1>1, <1>3, <1>8, FoldRuns
<1>10. IsEnqueueRun(run, base, elements, n, S)
  <2>1. run \in [0 .. n -> S] /\ run[0] = base /\ \A k \in 1 .. n : run[k] = H[k][run[k - 1]]
    BY <1>9 DEF IsFoldRun
  <2>2. \A k \in 1 .. n : run[k - 1] \in S BY <1>1, <2>1
  <2> QED BY <1>3, <2>1, <2>2 DEF IsEnqueueRun
<1> QED BY <1>2, <1>9, <1>10

\* The listing of a directory, entry by entry.
IsListChildRun(run, base, elements, n, S) ==
  /\ run \in [0 .. n -> S]
  /\ run[0] = base
  /\ \A k \in 1 .. n : run[k] = ListChild(run[k - 1], elements[k])

\* A fold of ListChild is a run of it.
LEMMA ListChildRun ==
  ASSUME NEW n, NEW elements, HasLen(elements, n), NEW S, NEW base \in S,
         \A k \in 1 .. n : \A x \in S : ListChild(x, elements[k]) \in S
  PROVE  \E run : /\ IsListChildRun(run, base, elements, n, S)
                  /\ FoldLeft(ListChild, base, elements) = run[n]
<1> DEFINE H == [k \in 1 .. n |-> [x \in S |-> ListChild(x, elements[k])]]
           iter == CHOOSE f : f = [s \in SUBSET (1 .. n) |->
                     IF s = {} THEN base ELSE ListChild(f[s \ {Max(s)}], elements[Max(s)])]
<1>1. n \in Nat /\ DOMAIN elements = 1 .. n BY SequenceLength DEF HasLen
<1>2. FoldLeft(ListChild, base, elements) = iter[1 .. n] BY <1>1 DEF FoldLeft, MapThenFoldSet
<1>3. /\ H \in [1 .. n -> [S -> S]]
      /\ \A k \in 1 .. n : \A x \in S : H[k][x] = ListChild(x, elements[k])
  OBVIOUS
<1> HIDE DEF H
<1>4. ASSUME NEW s \in SUBSET (1 .. n), s # {}
      PROVE  s \ {Max(s)} \in SUBSET (1 .. n) /\ Max(s) \in 1 .. n
  BY <1>1, <1>4, MaxOfUpTo
<1>5. PICK F \in [SUBSET (1 .. n) -> S] : IsStepFold(F, base, H, n) BY <1>1, <1>3, StepFoldExists
<1>6. F = [s \in SUBSET (1 .. n) |->
    IF s = {} THEN base ELSE ListChild(F[s \ {Max(s)}], elements[Max(s)])]
  <2>1. F = [s \in SUBSET (1 .. n) |-> IF s = {} THEN base ELSE H[Max(s)][F[s \ {Max(s)}]]]
    BY <1>5 DEF IsStepFold
  <2>2. \A s \in SUBSET (1 .. n) : (IF s = {} THEN base ELSE H[Max(s)][F[s \ {Max(s)}]])
      = (IF s = {} THEN base ELSE ListChild(F[s \ {Max(s)}], elements[Max(s)]))
    BY <1>3, <1>4, <1>5
  <2> QED BY <2>1, <2>2
<1>7. iter = [s \in SUBSET (1 .. n) |->
    IF s = {} THEN base ELSE ListChild(iter[s \ {Max(s)}], elements[Max(s)])]
  BY <1>6
<1> HIDE DEF iter
<1>8. Iterates(iter, base, H, n, S)
  <2>1. iter[{}] = base BY <1>7
  <2>2. ASSUME NEW s \in SUBSET (1 .. n), s # {}, iter[s \ {Max(s)}] \in S
        PROVE  iter[s] = H[Max(s)][iter[s \ {Max(s)}]]
    <3>1. iter[s] = ListChild(iter[s \ {Max(s)}], elements[Max(s)]) BY <1>7, <2>2
    <3> QED BY <3>1, <1>3, <1>4, <2>2
  <2> QED BY <2>1, <2>2 DEF Iterates
<1>9. PICK run : IsFoldRun(run, base, H, n, S) /\ iter[1 .. n] = run[n] BY ONLY <1>1, <1>3, <1>8, FoldRuns
<1>10. IsListChildRun(run, base, elements, n, S)
  <2>1. run \in [0 .. n -> S] /\ run[0] = base /\ \A k \in 1 .. n : run[k] = H[k][run[k - 1]]
    BY <1>9 DEF IsFoldRun
  <2>2. \A k \in 1 .. n : run[k - 1] \in S BY <1>1, <2>1
  <2> QED BY <1>3, <2>1, <2>2 DEF IsListChildRun
<1> QED BY <1>2, <1>9, <1>10

\* The listing, directory by directory.
IsListDirectoryRun(run, base, elements, n, S) ==
  /\ run \in [0 .. n -> S]
  /\ run[0] = base
  /\ \A k \in 1 .. n : run[k] = ListDirectory(run[k - 1], elements[k])

\* A fold of ListDirectory is a run of it.
LEMMA ListDirectoryRun ==
  ASSUME NEW n, NEW elements, HasLen(elements, n), NEW S, NEW base \in S,
         \A k \in 1 .. n : \A x \in S : ListDirectory(x, elements[k]) \in S
  PROVE  \E run : /\ IsListDirectoryRun(run, base, elements, n, S)
                  /\ FoldLeft(ListDirectory, base, elements) = run[n]
<1> DEFINE H == [k \in 1 .. n |-> [x \in S |-> ListDirectory(x, elements[k])]]
           iter == CHOOSE f : f = [s \in SUBSET (1 .. n) |->
                     IF s = {} THEN base ELSE ListDirectory(f[s \ {Max(s)}], elements[Max(s)])]
<1>1. n \in Nat /\ DOMAIN elements = 1 .. n BY SequenceLength DEF HasLen
<1>2. FoldLeft(ListDirectory, base, elements) = iter[1 .. n] BY <1>1 DEF FoldLeft, MapThenFoldSet
<1>3. /\ H \in [1 .. n -> [S -> S]]
      /\ \A k \in 1 .. n : \A x \in S : H[k][x] = ListDirectory(x, elements[k])
  OBVIOUS
<1> HIDE DEF H
<1>4. ASSUME NEW s \in SUBSET (1 .. n), s # {}
      PROVE  s \ {Max(s)} \in SUBSET (1 .. n) /\ Max(s) \in 1 .. n
  BY <1>1, <1>4, MaxOfUpTo
<1>5. PICK F \in [SUBSET (1 .. n) -> S] : IsStepFold(F, base, H, n) BY <1>1, <1>3, StepFoldExists
<1>6. F = [s \in SUBSET (1 .. n) |->
    IF s = {} THEN base ELSE ListDirectory(F[s \ {Max(s)}], elements[Max(s)])]
  <2>1. F = [s \in SUBSET (1 .. n) |-> IF s = {} THEN base ELSE H[Max(s)][F[s \ {Max(s)}]]]
    BY <1>5 DEF IsStepFold
  <2>2. \A s \in SUBSET (1 .. n) : (IF s = {} THEN base ELSE H[Max(s)][F[s \ {Max(s)}]])
      = (IF s = {} THEN base ELSE ListDirectory(F[s \ {Max(s)}], elements[Max(s)]))
    BY <1>3, <1>4, <1>5
  <2> QED BY <2>1, <2>2
<1>7. iter = [s \in SUBSET (1 .. n) |->
    IF s = {} THEN base ELSE ListDirectory(iter[s \ {Max(s)}], elements[Max(s)])]
  BY <1>6
<1> HIDE DEF iter
<1>8. Iterates(iter, base, H, n, S)
  <2>1. iter[{}] = base BY <1>7
  <2>2. ASSUME NEW s \in SUBSET (1 .. n), s # {}, iter[s \ {Max(s)}] \in S
        PROVE  iter[s] = H[Max(s)][iter[s \ {Max(s)}]]
    <3>1. iter[s] = ListDirectory(iter[s \ {Max(s)}], elements[Max(s)]) BY <1>7, <2>2
    <3> QED BY <3>1, <1>3, <1>4, <2>2
  <2> QED BY <2>1, <2>2 DEF Iterates
<1>9. PICK run : IsFoldRun(run, base, H, n, S) /\ iter[1 .. n] = run[n] BY ONLY <1>1, <1>3, <1>8, FoldRuns
<1>10. IsListDirectoryRun(run, base, elements, n, S)
  <2>1. run \in [0 .. n -> S] /\ run[0] = base /\ \A k \in 1 .. n : run[k] = H[k][run[k - 1]]
    BY <1>9 DEF IsFoldRun
  <2>2. \A k \in 1 .. n : run[k - 1] \in S BY <1>1, <2>1
  <2> QED BY <1>3, <2>1, <2>2 DEF IsListDirectoryRun
<1> QED BY <1>2, <1>9, <1>10

-----------------------------------------------------------------------------
(* One component of a path                                                   *)

FileNames == DOMAIN Fold

Nodes ==
  [is_file : BOOLEAN, name : FileNames \cup {""}, children : Seq(Nat),
   file_offset : Nat, file_size : Nat]

\* The arena of a path tree: its nodes, whose children are nodes of it.
IsArena(arena) ==
  /\ arena \in Seq(Nodes) /\ Len(arena) >= 1
  /\ \A n \in 1 .. Len(arena) : \A i \in 1 .. Len(arena[n].children) :
       arena[n].children[i] \in 1 .. Len(arena)

Climbs ==
  {walk \in [arena : Seq(Nodes), running_offset : Nat, ok : BOOLEAN, dir : Nat] :
     IsArena(walk.arena) /\ walk.dir \in 1 .. Len(walk.arena)}

PathParts == [name : FileNames, is_last : BOOLEAN, size : Nat]

\* What the fields of a node are.
LEMMA NodeFields ==
  ASSUME NEW arena, IsArena(arena), NEW n \in 1 .. Len(arena)
  PROVE  /\ Len(arena) \in Nat \ {0} /\ DOMAIN arena = 1 .. Len(arena)
         /\ arena[n] \in Nodes
         /\ arena[n].is_file \in BOOLEAN
         /\ arena[n].name \in FileNames \cup {""}
         /\ arena[n].children \in Seq(Nat)
         /\ HasLen(arena[n].children, Len(arena[n].children))
         /\ Len(arena[n].children) \in Nat
         /\ DOMAIN arena[n].children = 1 .. Len(arena[n].children)
         /\ \A i \in 1 .. Len(arena[n].children) : arena[n].children[i] \in 1 .. Len(arena)
         /\ arena[n].file_offset \in Nat /\ arena[n].file_size \in Nat
         /\ arena[n] = [is_file |-> arena[n].is_file, name |-> arena[n].name,
                        children |-> arena[n].children,
                        file_offset |-> arena[n].file_offset, file_size |-> arena[n].file_size]
<1>1. arena[n] \in Nodes /\ Len(arena) \in Nat \ {0} /\ DOMAIN arena = 1 .. Len(arena) BY DEF IsArena
<1>2. /\ arena[n].is_file \in BOOLEAN /\ arena[n].name \in FileNames \cup {""}
      /\ arena[n].children \in Seq(Nat)
      /\ arena[n].file_offset \in Nat /\ arena[n].file_size \in Nat
      /\ arena[n] = [is_file |-> arena[n].is_file, name |-> arena[n].name,
                     children |-> arena[n].children,
                     file_offset |-> arena[n].file_offset, file_size |-> arena[n].file_size]
  BY <1>1 DEF Nodes
<1>3. /\ HasLen(arena[n].children, Len(arena[n].children))
      /\ DOMAIN arena[n].children = 1 .. Len(arena[n].children)
  BY <1>2, SeqIsSequence
<1> QED BY <1>1, <1>2, <1>3 DEF IsArena, HasLen

\* A node by its fields.
LEMMA NodeBuilt ==
  ASSUME NEW f \in BOOLEAN, NEW m \in FileNames \cup {""}, NEW c \in Seq(Nat),
         NEW o \in Nat, NEW z \in Nat
  PROVE  [is_file |-> f, name |-> m, children |-> c, file_offset |-> o, file_size |-> z] \in Nodes
BY DEF Nodes

\* Whether there is a child of that name, and which.
LEMMA ChildFound ==
  ASSUME NEW arena, IsArena(arena), NEW dir \in 1 .. Len(arena), NEW name
  PROVE  LET at == ChildNamed(arena, dir, name)
             children == arena[dir].children
         IN \/ at \in 1 .. Len(children) /\ Fold[arena[children[at]].name] = Fold[name]
            \/ at = 0 /\ \A i \in 1 .. Len(children) : Fold[arena[children[i]].name] # Fold[name]
<1> DEFINE children == arena[dir].children
           I == {i \in 1 .. Len(children) : Fold[arena[children[i]].name] = Fold[name]}
<1>1. Len(children) \in Nat BY NodeFields
<1>2. ChildNamed(arena, dir, name) = IF I # {} THEN Min(I) ELSE 0 BY DEF ChildNamed, SelectInSeq
<1>3. I \in SUBSET Int /\ \A x \in I : 0 <= x BY <1>1
<1>4. I # {} => Min(I) \in I
  <2> HIDE DEF I
  <2> QED BY <1>3, IntMin
<1> QED BY <1>1, <1>2, <1>4

\* The node Descend() adds.
NewNode(walk, part) ==
  [is_file |-> part.is_last, name |-> part.name, children |-> <<>>,
   file_offset |-> IF part.is_last THEN walk.running_offset ELSE 0,
   file_size |-> IF part.is_last THEN part.size ELSE 0]

\* What adding a node changes: the arena grows by it, its parent by a child.
LEMMA AddedNode ==
  ASSUME NEW arena, IsArena(arena), NEW dir \in 1 .. Len(arena),
         NEW node \in Nodes, node.children = <<>>
  PROVE  LET grown == AddNode(arena, dir, node)
             N == Len(arena)
         IN /\ IsArena(grown) /\ Len(grown) = N + 1
            /\ grown[N + 1] = node
            /\ \A n \in 1 .. N : n # dir => grown[n] = arena[n]
            /\ grown[dir].is_file = arena[dir].is_file
            /\ grown[dir].name = arena[dir].name
            /\ grown[dir].file_offset = arena[dir].file_offset
            /\ grown[dir].file_size = arena[dir].file_size
            /\ grown[dir].children = Append(arena[dir].children, N + 1)
            /\ IsAppend(grown[dir].children, arena[dir].children, Len(arena[dir].children), N + 1)
<1> DEFINE N == Len(arena)
           c == Append(arena[dir].children, N + 1)
           b == [arena EXCEPT ![dir].children = c]
           grown == AddNode(arena, dir, node)
<1>1. /\ N \in Nat \ {0} /\ DOMAIN arena = 1 .. N
      /\ \A n \in 1 .. N : arena[n] \in Nodes
      /\ arena[dir].children \in Seq(Nat)
      /\ HasLen(arena[dir].children, Len(arena[dir].children))
      /\ arena \in Seq(Nodes)
  BY NodeFields DEF IsArena
<1>2. c \in Seq(Nat) /\ IsAppend(c, arena[dir].children, Len(arena[dir].children), N + 1)
      /\ Len(c) = Len(arena[dir].children) + 1
  <2>1. c \in Seq(Nat) /\ Len(c) = Len(arena[dir].children) + 1 BY <1>1
  <2> QED BY <2>1, <1>1, SequenceAppend
<1>3. grown = Append(b, node) BY DEF AddNode
<1> HIDE DEF c
<1>4. [arena[dir] EXCEPT !.children = c]
    = [is_file |-> arena[dir].is_file, name |-> arena[dir].name, children |-> c,
       file_offset |-> arena[dir].file_offset, file_size |-> arena[dir].file_size]
  <2> DEFINE r == arena[dir]
  <2>1. r = [is_file |-> r.is_file, name |-> r.name, children |-> r.children,
      file_offset |-> r.file_offset, file_size |-> r.file_size]
    BY NodeFields
  <2> HIDE DEF r
  <2>2. [r EXCEPT !.children = c] = [is_file |-> r.is_file, name |-> r.name, children |-> c,
      file_offset |-> r.file_offset, file_size |-> r.file_size]
    BY <2>1
  <2> QED BY <2>2 DEF r
<1>6. /\ b = [n \in 1 .. N |-> b[n]]
      /\ \A n \in 1 .. N : n # dir => b[n] = arena[n]
      /\ b[dir] = [arena[dir] EXCEPT !.children = c]
  BY <1>1
<1>5. b[dir] \in Nodes
  <2>1. /\ arena[dir].is_file \in BOOLEAN /\ arena[dir].name \in FileNames \cup {""}
        /\ arena[dir].file_offset \in Nat /\ arena[dir].file_size \in Nat
    BY NodeFields
  <2>2. b[dir] = [is_file |-> arena[dir].is_file, name |-> arena[dir].name, children |-> c,
      file_offset |-> arena[dir].file_offset, file_size |-> arena[dir].file_size]
    BY <1>4, <1>6
  <2> DEFINE f == arena[dir].is_file
             m == arena[dir].name
             o == arena[dir].file_offset
             z == arena[dir].file_size
  <2>3. b[dir] = [is_file |-> f, name |-> m, children |-> c, file_offset |-> o, file_size |-> z] BY <2>2
  <2>4. f \in BOOLEAN /\ m \in FileNames \cup {""} /\ o \in Nat /\ z \in Nat BY <2>1
  <2> HIDE DEF b, f, m, o, z
  <2>5. [is_file |-> f, name |-> m, children |-> c, file_offset |-> o, file_size |-> z] \in Nodes
    BY <2>4, <1>2, NodeBuilt
  <2> QED BY <2>3, <2>5
<1>7. HasLen(b, N) /\ \A n \in 1 .. N : b[n] \in Nodes BY <1>1, <1>5, <1>6 DEF HasLen
<1>8. b[dir].is_file = arena[dir].is_file /\ b[dir].name = arena[dir].name
      /\ b[dir].file_offset = arena[dir].file_offset
      /\ b[dir].file_size = arena[dir].file_size
      /\ b[dir].children = c
  BY <1>4, <1>6
<1> HIDE DEF b
<1>9. IsAppend(grown, b, N, node) BY <1>3, <1>7, SequenceAppend
<1> HIDE DEF grown
<1>10. /\ HasLen(grown, N + 1)
       /\ \A n \in 1 .. N : grown[n] = b[n]
       /\ grown[N + 1] = node
  BY <1>1, <1>9 DEF IsAppend
<1>11. Len(grown) = N + 1 /\ grown \in Seq(Nodes)
  <2>1. \A n \in 1 .. N + 1 : grown[n] \in Nodes BY <1>1, <1>7, <1>10, SMTT(30)
  <2> QED BY <2>1, <1>10, SequenceLength, SequenceIsSeq
<1>12. ASSUME NEW n \in 1 .. N + 1, NEW i \in 1 .. Len(grown[n].children)
    PROVE  grown[n].children[i] \in 1 .. N + 1
  <2>1. CASE n = N + 1 BY <1>10, <2>1, <1>12
  <2>2. CASE n = dir
    <3>1. c[i] = IF i <= Len(arena[dir].children) THEN arena[dir].children[i] ELSE N + 1
      BY <1>2, <1>8, <1>10, <1>12, <2>2, <1>1 DEF IsAppend
    <3>2. Len(arena[dir].children) \in Nat
          /\ \A j \in 1 .. Len(arena[dir].children) : arena[dir].children[j] \in 1 .. N
      BY NodeFields
    <3>3. i \in 1 .. Len(arena[dir].children) + 1 /\ grown[n].children[i] = c[i]
      BY <1>2, <1>8, <1>10, <1>12, <2>2
    <3> QED BY <3>1, <3>2, <3>3, <1>1
  <2>3. CASE n # N + 1 /\ n # dir
    <3>1. n \in 1 .. N /\ grown[n] = arena[n] BY <1>1, <1>6, <1>10, <1>12, <2>3
    <3> QED BY <3>1, <1>1, <1>12 DEF IsArena
  <2> QED BY <2>1, <2>2, <2>3
<1>13. IsArena(grown) BY <1>1, <1>11, <1>12 DEF IsArena
<1> QED BY <1>2, <1>6, <1>8, <1>10, <1>11, <1>13 DEF grown, c

\* What one component does to the walk.
Descends(walk, part, next) ==
  LET at == ChildNamed(walk.arena, walk.dir, part.name)
      child == walk.arena[walk.dir].children[at]
  IN /\ next \in Climbs
     /\ ~walk.ok => next = walk
     /\ walk.ok /\ at # 0 =>
          /\ next.arena = walk.arena /\ next.running_offset = walk.running_offset
          /\ next.dir = child /\ next.ok = (~part.is_last /\ ~walk.arena[child].is_file)
     /\ walk.ok /\ at = 0 =>
          /\ next.arena = AddNode(walk.arena, walk.dir, NewNode(walk, part))
          /\ next.running_offset
               = IF part.is_last THEN walk.running_offset + part.size ELSE walk.running_offset
          /\ next.dir = Len(walk.arena) + 1 /\ next.ok

\* One component: an error, a step down to the child of that name, or a new node.
LEMMA DescendStep ==
  ASSUME NEW walk \in Climbs, NEW part \in PathParts
  PROVE  Descends(walk, part, Descend(walk, part))
<1> DEFINE at == ChildNamed(walk.arena, walk.dir, part.name)
           child == walk.arena[walk.dir].children[at]
           node == NewNode(walk, part)
           grown == AddNode(walk.arena, walk.dir, node)
           off == IF part.is_last THEN walk.running_offset + part.size ELSE walk.running_offset
           good == ~part.is_last /\ ~walk.arena[child].is_file
           N == Len(walk.arena)
           next == Descend(walk, part)
<1>1. /\ walk = [arena |-> walk.arena, running_offset |-> walk.running_offset,
                 ok |-> walk.ok, dir |-> walk.dir]
      /\ walk.arena \in Seq(Nodes) /\ IsArena(walk.arena) /\ walk.dir \in 1 .. N
      /\ walk.running_offset \in Nat /\ walk.ok \in BOOLEAN
  BY DEF Climbs
<1>2. part.name \in FileNames /\ part.is_last \in BOOLEAN /\ part.size \in Nat BY DEF PathParts
<1>3. node \in Nodes /\ node.children = <<>>
  <2> DEFINE fo == IF part.is_last THEN walk.running_offset ELSE 0
             fs == IF part.is_last THEN part.size ELSE 0
  <2>1. fo \in Nat /\ fs \in Nat /\ <<>> \in Seq(Nat) BY <1>1, <1>2
  <2>2. node = [is_file |-> part.is_last, name |-> part.name, children |-> <<>>,
      file_offset |-> fo, file_size |-> fs]
    BY DEF NewNode
  <2> HIDE DEF node, fo, fs
  <2> QED BY <2>1, <2>2, <1>2 DEF Nodes
<1>4. IsArena(grown) /\ Len(grown) = N + 1 /\ N \in Nat \ {0}
  <2>1. N \in Nat \ {0} BY <1>1, NodeFields
  <2> HIDE DEF node
  <2> QED BY <1>1, <1>3, <2>1, AddedNode
<1>5. at # 0 => at \in 1 .. Len(walk.arena[walk.dir].children) /\ child \in 1 .. N
  <2>1. at # 0 => at \in 1 .. Len(walk.arena[walk.dir].children) BY <1>1, ChildFound
  <2>2. \A i \in 1 .. Len(walk.arena[walk.dir].children) :
      walk.arena[walk.dir].children[i] \in 1 .. N
    BY <1>1 DEF IsArena
  <2> HIDE DEF at
  <2> QED BY <2>1, <2>2
<1>6. next = CASE ~walk.ok -> walk
               [] walk.ok /\ at # 0 -> [walk EXCEPT !.dir = child, !.ok = good]
               [] OTHER -> [walk EXCEPT !.arena = grown, !.running_offset = off, !.dir = N + 1]
  <2> HIDE DEF at
  <2>1. CASE ~walk.ok BY <2>1 DEF Descend
  <2>2. CASE walk.ok /\ at # 0 BY <2>2 DEF Descend, at
  <2>3. CASE walk.ok /\ at = 0
    <3>1. next = [walk EXCEPT !.arena = grown, !.running_offset = off, !.dir = N + 1]
      BY <2>3 DEF Descend, at, NewNode
    <3> QED BY <3>1, <2>3
  <2> QED BY <1>1, <2>1, <2>2, <2>3
<1> HIDE DEF at, child, node, grown, off, good, next
<1>7. CASE ~walk.ok
  <2>1. next = walk BY <1>6, <1>7
  <2> QED BY <2>1, <1>7 DEF Descends, next
<1>8. CASE walk.ok /\ at # 0
  <2>1. next = [arena |-> walk.arena, running_offset |-> walk.running_offset,
      ok |-> good, dir |-> child]
    BY <1>1, <1>6, <1>8
  <2>2. good \in BOOLEAN BY DEF good
  <2>3. next \in Climbs BY <2>1, <2>2, <1>1, <1>4, <1>5, <1>8 DEF Climbs
  <2> QED BY <2>1, <2>3, <1>8 DEF Descends, next, at, child, good
<1>9. CASE walk.ok /\ at = 0
  <2>1. next = [arena |-> grown, running_offset |-> off, ok |-> TRUE, dir |-> N + 1] BY <1>1, <1>6, <1>9
  <2>2. off \in Nat /\ grown \in Seq(Nodes) BY <1>1, <1>2, <1>4 DEF off, IsArena
  <2>3. next \in Climbs BY <2>1, <2>2, <1>4 DEF Climbs
  <2> QED BY <2>1, <2>3, <1>9 DEF Descends, next, at, child, off, grown, node
<1> QED BY <1>1, <1>7, <1>8, <1>9

-----------------------------------------------------------------------------
(* The path tree: every node has a key, the lower-case path to it            *)

Keys == Seq(DOMAIN Rank)

\* A child's key is its parent's and its own name; a child comes after its
\* parent; every node but the root is a child.
ChildrenKeyed(arena, key) ==
  /\ \A n \in 1 .. Len(arena) : \A i \in 1 .. Len(arena[n].children) :
       /\ arena[n].children[i] > n
       /\ key[arena[n].children[i]] = Append(key[n], Fold[arena[arena[n].children[i]].name])
  /\ \A n \in 1 .. Len(arena) : \A i, j \in 1 .. Len(arena[n].children) :
       arena[n].children[i] = arena[n].children[j] => i = j
  /\ \A n \in 1 .. Len(arena) : arena[n].is_file => Len(arena[n].children) = 0
  /\ \A c \in 2 .. Len(arena) : \E n \in 1 .. c - 1 :
       \E i \in 1 .. Len(arena[n].children) : arena[n].children[i] = c

KeysApart(key, N) == \A m, n \in 1 .. N : key[m] = key[n] => m = n

IsPathTree(arena, key) ==
  /\ IsArena(arena)
  /\ HasLen(key, Len(arena)) /\ \A n \in 1 .. Len(arena) : key[n] \in Keys
  /\ key[1] = <<>> /\ ~arena[1].is_file
  /\ KeysApart(key, Len(arena))
  /\ \A n \in 2 .. Len(arena) : arena[n].name \in FileNames
  /\ ChildrenKeyed(arena, key)

\* Longer keys are the same only if what they extend is.
LEMMA KeySame ==
  ASSUME NEW p \in Keys, NEW a \in DOMAIN Rank, NEW q \in Keys, NEW b \in DOMAIN Rank,
         Append(p, a) = Append(q, b)
  PROVE  p = q /\ a = b
<1> DEFINE V == DOMAIN Rank
<1> HIDE DEF V
<1>1. p \in Seq(V) /\ a \in V /\ q \in Seq(V) /\ b \in V BY DEF V, Keys
<1> QED BY <1>1, AppendedSame

\* No node has the key of a child that is not there.
LEMMA NoSuchKey ==
  ASSUME NEW arena, NEW key, IsPathTree(arena, key), NEW dir \in 1 .. Len(arena),
         NEW name \in FileNames, ChildNamed(arena, dir, name) = 0
  PROVE  \A c \in 1 .. Len(arena) : key[c] # Append(key[dir], Fold[name])
<1> SUFFICES ASSUME NEW c \in 1 .. Len(arena), key[c] = Append(key[dir], Fold[name])
    PROVE  FALSE
  OBVIOUS
<1>1. /\ IsArena(arena) /\ Len(arena) \in Nat \ {0}
      /\ \A n \in 1 .. Len(arena) : key[n] \in Keys
      /\ key[1] = <<>> /\ KeysApart(key, Len(arena))
      /\ \A n \in 2 .. Len(arena) : Fold[arena[n].name] \in DOMAIN Rank
      /\ Fold[name] \in DOMAIN Rank
  BY NodeFields, ZarLayoutAssumption DEF IsPathTree, FileNames
<1>2. key[c] \in Keys \ {<<>>} BY <1>1, AppendedPath DEF Keys
<1>3. c \in 2 .. Len(arena) BY <1>1, <1>2
<1>4. PICK n \in 1 .. c - 1 : \E i \in 1 .. Len(arena[n].children) : arena[n].children[i] = c
  BY <1>3 DEF IsPathTree, ChildrenKeyed
<1>5. PICK i \in 1 .. Len(arena[n].children) : arena[n].children[i] = c BY <1>4
<1>6. n \in 1 .. Len(arena) BY <1>1, <1>3
<1>7. key[c] = Append(key[n], Fold[arena[c].name])
  <2>1. key[arena[n].children[i]] = Append(key[n], Fold[arena[arena[n].children[i]].name])
    BY <1>6 DEF IsPathTree, ChildrenKeyed
  <2> QED BY <2>1, <1>5
<1>8. key[n] = key[dir] /\ Fold[arena[c].name] = Fold[name]
  <2>1. Append(key[n], Fold[arena[c].name]) = Append(key[dir], Fold[name]) BY <1>7
  <2>2. key[n] \in Keys /\ key[dir] \in Keys /\ Fold[arena[c].name] \in DOMAIN Rank BY <1>1, <1>3, <1>6
  <2> DEFINE p == key[n]
             q == key[dir]
             a == Fold[arena[c].name]
             b == Fold[name]
  <2>3. p \in Keys /\ a \in DOMAIN Rank /\ q \in Keys /\ b \in DOMAIN Rank BY <2>2, <1>1
  <2>4. Append(p, a) = Append(q, b) BY <2>1
  <2> HIDE DEF p, q, a, b
  <2>5. p = q /\ a = b BY <2>3, <2>4, KeySame
  <2> QED BY <2>5 DEF p, q, a, b
<1>9. n = dir BY <1>1, <1>6, <1>8 DEF KeysApart
<1> QED BY <1>1, <1>5, <1>8, <1>9, ChildFound

\* A new node keeps the tree one.
LEMMA TreeGrows ==
  ASSUME NEW arena, NEW key, IsPathTree(arena, key), NEW dir \in 1 .. Len(arena),
         ~arena[dir].is_file, NEW node \in Nodes, node.children = <<>>,
         node.name \in FileNames, ChildNamed(arena, dir, node.name) = 0
  PROVE  IsPathTree(AddNode(arena, dir, node), Append(key, Append(key[dir], Fold[node.name])))
<1> DEFINE N == Len(arena)
           grown == AddNode(arena, dir, node)
           k == Append(key[dir], Fold[node.name])
           keys == Append(key, k)
<1>1. /\ IsArena(arena) /\ N \in Nat \ {0}
      /\ HasLen(key, N)
      /\ \A n \in 1 .. N : key[n] \in Keys
      /\ key[1] = <<>> /\ ~arena[1].is_file /\ KeysApart(key, N)
      /\ \A n \in 2 .. N : arena[n].name \in FileNames
      /\ Fold[node.name] \in DOMAIN Rank
  BY NodeFields, ZarLayoutAssumption DEF IsPathTree, FileNames
<1>2. /\ IsArena(grown) /\ Len(grown) = N + 1
      /\ grown[N + 1] = node
      /\ \A n \in 1 .. N : n # dir => grown[n] = arena[n]
      /\ grown[dir].is_file = arena[dir].is_file
      /\ grown[dir].name = arena[dir].name
      /\ IsAppend(grown[dir].children, arena[dir].children, Len(arena[dir].children), N + 1)
  BY <1>1, AddedNode
<1>3. k \in Keys \ {<<>>} BY <1>1, AppendedPath DEF Keys
<1>4. \A c \in 1 .. N : key[c] # k BY NoSuchKey
<1>5. IsAppend(keys, key, N, k) BY <1>1, SequenceAppend
<1> HIDE DEF grown, keys, N, k
<1>6. /\ HasLen(keys, N + 1)
      /\ \A n \in 1 .. N : keys[n] = key[n]
      /\ keys[N + 1] = k
  BY <1>1, <1>5 DEF IsAppend
<1>7. \A n \in 1 .. N + 1 : keys[n] \in Keys BY <1>1, <1>3, <1>6
<1>8. KeysApart(keys, N + 1) BY <1>1, <1>4, <1>6 DEF KeysApart
<1>9. \A n \in 1 .. N : grown[n].name = arena[n].name /\ grown[n].is_file = arena[n].is_file BY <1>2
<1>10. \A n \in 2 .. N + 1 : grown[n].name \in FileNames
  <2>1. \A n \in 2 .. N + 1 : n \in (1 .. N) \cap (2 .. N) \/ n = N + 1 BY <1>1
  <2>2. \A n \in 2 .. N : arena[n].name \in FileNames BY <1>1
  <2>3. grown[N + 1].name \in FileNames BY <1>2
  <2> QED BY ONLY <1>9, <2>1, <2>2, <2>3
<1> DEFINE count(n) == Len(arena[n].children)
<1>11. \A n \in 1 .. N : count(n) \in Nat /\ \A i \in 1 .. count(n) : arena[n].children[i] \in 1 .. N
  BY <1>1, NodeFields DEF N
<1>12. /\ Len(grown[N + 1].children) = 0
       /\ \A n \in 1 .. N : n # dir => grown[n].children = arena[n].children
       /\ Len(grown[dir].children) = count(dir) + 1
       /\ \A i \in 1 .. count(dir) : grown[dir].children[i] = arena[dir].children[i]
       /\ grown[dir].children[count(dir) + 1] = N + 1
  <2>1. dir \in 1 .. N /\ count(dir) \in Nat BY <1>11 DEF N
  <2>2. Len(grown[dir].children) = count(dir) + 1 BY <1>2, SequenceLength DEF IsAppend
  <2>3. /\ \A i \in 1 .. count(dir) : grown[dir].children[i] = arena[dir].children[i]
        /\ grown[dir].children[count(dir) + 1] = N + 1
    BY <1>2 DEF IsAppend
  <2>4. Len(grown[N + 1].children) = 0 /\ \A n \in 1 .. N : n # dir => grown[n] = arena[n] BY <1>2
  <2> QED BY ONLY <2>2, <2>3, <2>4
<1>13. /\ \A n \in 1 .. N : \A i \in 1 .. count(n) :
            /\ arena[n].children[i] > n
            /\ key[arena[n].children[i]] = Append(key[n], Fold[arena[arena[n].children[i]].name])
       /\ \A n \in 1 .. N : \A i, j \in 1 .. count(n) :
            arena[n].children[i] = arena[n].children[j] => i = j
       /\ \A n \in 1 .. N : arena[n].is_file => count(n) = 0
       /\ \A c \in 2 .. N : \E n \in 1 .. c - 1 :
            \E i \in 1 .. count(n) : arena[n].children[i] = c
  BY DEF IsPathTree, ChildrenKeyed, N
\* A child is an old one, or the new node.
<1>14. ASSUME NEW n \in 1 .. N + 1, NEW i \in 1 .. Len(grown[n].children)
    PROVE  /\ n \in 1 .. N
           /\ \/ /\ i \in 1 .. count(n) /\ grown[n].children[i] = arena[n].children[i]
                 /\ grown[n].children[i] \in 1 .. N
              \/ n = dir /\ i = count(dir) + 1 /\ grown[n].children[i] = N + 1
  <2>1. n \in 1 .. N BY <1>1, <1>12, <1>14
  <2>2. CASE n = dir
    <3>1. i \in 1 .. count(dir) + 1 /\ count(dir) \in Nat BY <1>11, <1>12, <1>14, <2>1, <2>2
    <3>2. CASE i = count(dir) + 1 BY <1>12, <2>1, <2>2, <3>2
    <3>3. CASE i \in 1 .. count(dir) BY <1>11, <1>12, <2>1, <2>2, <3>3
    <3> HIDE DEF count
    <3> QED BY <3>1, <3>2, <3>3
  <2>3. CASE n # dir
    <3>1. grown[n].children = arena[n].children BY <1>12, <2>1, <2>3
    <3> QED BY <3>1, <1>11, <1>14, <2>1
  <2> QED BY <2>2, <2>3
<1>15. ASSUME NEW n \in 1 .. N + 1, NEW i \in 1 .. Len(grown[n].children)
    PROVE  /\ grown[n].children[i] > n
           /\ keys[grown[n].children[i]]
                = Append(keys[n], Fold[grown[grown[n].children[i]].name])
  <2>1. CASE i \in 1 .. count(n) /\ grown[n].children[i] = arena[n].children[i]
             /\ grown[n].children[i] \in 1 .. N
    <3> DEFINE c == arena[n].children[i]
    <3>1. c > n /\ key[c] = Append(key[n], Fold[arena[c].name]) BY <1>13, <1>14, <1>15, <2>1
    <3>2. c \in 1 .. N /\ n \in 1 .. N /\ grown[n].children[i] = c BY <1>14, <1>15, <2>1
    <3> HIDE DEF c
    <3>3. keys[c] = key[c] /\ keys[n] = key[n] /\ grown[c].name = arena[c].name BY <1>6, <1>9, <3>2
    <3> QED BY <3>1, <3>2, <3>3
  <2>2. CASE n = dir /\ i = count(dir) + 1 /\ grown[n].children[i] = N + 1
    <3>1. keys[N + 1] = Append(key[dir], Fold[node.name]) /\ keys[dir] = key[dir] /\ dir \in 1 .. N
      BY <1>6 DEF k, N
    <3> QED BY <1>1, <1>2, <2>2, <3>1
  <2> QED BY <1>14, <1>15, <2>1, <2>2
<1>16. ASSUME NEW n \in 1 .. N + 1, NEW i \in 1 .. Len(grown[n].children),
           NEW j \in 1 .. Len(grown[n].children), grown[n].children[i] = grown[n].children[j]
    PROVE  i = j
  <2>1. /\ n \in 1 .. N
        /\ \/ i \in 1 .. count(n) /\ grown[n].children[i] = arena[n].children[i]
              /\ grown[n].children[i] \in 1 .. N
           \/ n = dir /\ i = count(dir) + 1 /\ grown[n].children[i] = N + 1
        /\ \/ j \in 1 .. count(n) /\ grown[n].children[j] = arena[n].children[j]
              /\ grown[n].children[j] \in 1 .. N
           \/ n = dir /\ j = count(dir) + 1 /\ grown[n].children[j] = N + 1
    BY <1>14, <1>16
  <2> QED BY <2>1, <1>1, <1>13, <1>16
<1>17. \A n \in 1 .. N + 1 : grown[n].is_file => Len(grown[n].children) = 0
  <2> SUFFICES ASSUME NEW n \in 1 .. N + 1, grown[n].is_file
      PROVE  Len(grown[n].children) = 0
    OBVIOUS
  <2>1. CASE n = N + 1 BY <1>12, <2>1
  <2>2. CASE n \in 1 .. N
    <3>1. arena[n].is_file /\ n # dir BY <1>9, <2>2 DEF N
    <3>2. grown[n].children = arena[n].children BY <1>12, <2>2, <3>1
    <3> QED BY <1>13, <2>2, <3>1, <3>2
  <2> QED BY <1>1, <2>1, <2>2
<1>18. ASSUME NEW c \in 2 .. N + 1
    PROVE  \E n \in 1 .. c - 1 : \E i \in 1 .. Len(grown[n].children) : grown[n].children[i] = c
  <2>1. CASE c = N + 1
    <3>1. dir \in 1 .. c - 1 /\ count(dir) + 1 \in 1 .. Len(grown[dir].children)
      BY <1>1, <1>11, <1>12, <2>1 DEF N
    <3> QED BY <3>1, <1>12, <2>1
  <2>2. CASE c \in 2 .. N
    <3>1. PICK n \in 1 .. c - 1 : \E i \in 1 .. count(n) : arena[n].children[i] = c BY <1>13, <2>2
    <3>2. PICK i \in 1 .. count(n) : arena[n].children[i] = c BY <3>1
    <3>3. n \in 1 .. N BY <1>1, <2>2
    <3>4. i \in 1 .. Len(grown[n].children) /\ grown[n].children[i] = c
      BY <1>11, <1>12, <3>2, <3>3, SMTT(30)
    <3> QED BY <3>4
  <2> QED BY <1>1, <2>1, <2>2
<1>19. ChildrenKeyed(grown, keys) BY <1>2, <1>15, <1>16, <1>17, <1>18 DEF ChildrenKeyed
<1>20. keys[1] = <<>> /\ ~grown[1].is_file BY <1>1, <1>6, <1>9
<1>21. IsPathTree(grown, keys) BY <1>2, <1>6, <1>7, <1>8, <1>10, <1>19, <1>20 DEF IsPathTree
<1> QED BY <1>21 DEF grown, keys, k

-----------------------------------------------------------------------------
(* The files of a path tree                                                  *)

Folded(path) == [i \in DOMAIN path |-> Fold[path[i]]]

Begins(s, t) == Len(s) <= Len(t) /\ \A i \in 1 .. Len(s) : s[i] = t[i]

\* The key of a path.
LEMMA FoldedKey ==
  ASSUME NEW path \in Seq(FileNames)
  PROVE  /\ Folded(path) \in Keys /\ Len(Folded(path)) = Len(path) /\ Len(path) \in Nat
         /\ \A i \in 1 .. Len(path) : Folded(path)[i] = Fold[path[i]] /\ path[i] \in FileNames
         /\ DOMAIN path = 1 .. Len(path)
<1> DEFINE n == Len(path)
           r == Folded(path)
<1>1. n \in Nat /\ DOMAIN path = 1 .. n /\ \A i \in 1 .. n : path[i] \in FileNames OBVIOUS
<1>2. r = [i \in 1 .. n |-> Fold[path[i]]] BY <1>1 DEF Folded
<1>3. HasLen(r, n) /\ \A i \in 1 .. n : r[i] = Fold[path[i]] BY <1>1, <1>2 DEF HasLen
<1>4. \A i \in 1 .. n : r[i] \in DOMAIN Rank BY <1>1, <1>3, ZarLayoutAssumption DEF FileNames
<1> HIDE DEF r
<1>5. Len(r) = n /\ r \in Seq(DOMAIN Rank) BY <1>3, <1>4, SequenceLength, SequenceIsSeq
<1> QED BY <1>1, <1>3, <1>5 DEF r, Keys

\* Keys are the same if one begins the other and has its length.
LEMMA KeyBegins ==
  ASSUME NEW p \in Keys, NEW q \in Keys, Begins(p, q), Len(p) = Len(q)
  PROVE  p = q
<1>1. HasLen(p, Len(p)) /\ HasLen(q, Len(p)) BY SeqIsSequence DEF Keys
<1> QED BY <1>1, SequenceSame DEF Begins

\* One component further.
LEMMA KeyExtends ==
  ASSUME NEW p \in Keys, NEW path \in Seq(FileNames), Len(p) < Len(path),
         Begins(p, Folded(path)), NEW q, q = Append(p, Fold[path[Len(p) + 1]])
  PROVE  /\ q \in Keys /\ Len(q) = Len(p) + 1 /\ Begins(q, Folded(path))
         /\ Len(q) = Len(path) => q = Folded(path)
<1> DEFINE j == Len(p)
           name == Fold[path[j + 1]]
<1>1. /\ Folded(path) \in Keys /\ Len(Folded(path)) = Len(path) /\ Len(path) \in Nat
      /\ \A i \in 1 .. Len(path) : Folded(path)[i] = Fold[path[i]] /\ path[i] \in FileNames
  BY FoldedKey
<1>2. j \in Nat /\ HasLen(p, j) BY SeqIsSequence DEF Keys
<1>3. j + 1 \in 1 .. Len(path) BY <1>1, <1>2
<1>4. name \in DOMAIN Rank BY <1>1, <1>3, ZarLayoutAssumption DEF FileNames
<1> HIDE DEF name
<1>5. IsAppend(q, p, j, name) BY <1>2, SequenceAppend DEF name
<1>6. q \in Keys BY <1>4, AppendedPath DEF Keys, name
<1> HIDE DEF j
<1>7. Len(q) = j + 1 /\ \A i \in 1 .. j + 1 : q[i] = IF i <= j THEN p[i] ELSE name
  BY <1>5, SequenceLength DEF IsAppend
<1>8. \A i \in 1 .. j : p[i] = Folded(path)[i] BY DEF Begins, j
<1>9. Begins(q, Folded(path)) BY <1>1, <1>2, <1>3, <1>7, <1>8 DEF Begins, name
<1> QED BY <1>1, <1>6, <1>7, <1>9, KeyBegins DEF j

\* The first files, each with its node, and no other node is a file.
FilesHeld(arena, key, list, node, m) ==
  /\ \A f \in 1 .. m :
       /\ node[f] \in 2 .. Len(arena)
       /\ arena[node[f]].is_file
       /\ key[node[f]] = Folded(list[f].path)
       /\ arena[node[f]].name = Last(list[f].path)
       /\ arena[node[f]].file_offset = FileStart(list, f)
       /\ arena[node[f]].file_size = list[f].size
  /\ \A f, g \in 1 .. m : node[f] = node[g] => f = g
  /\ \A n \in 1 .. Len(arena) : arena[n].is_file => \E f \in 1 .. m : node[f] = n

\* Every node but the root is on the way to a file, or to the one after those
\* and no more than j components deep.
LeadsOn(arena, key, list, k, j) ==
  \A n \in 2 .. Len(arena) :
    \/ \E f \in 1 .. k : Begins(key[n], Folded(list[f].path))
    \/ j > 0 /\ Len(key[n]) <= j /\ Begins(key[n], Folded(list[k + 1].path))

\* The nodes there were are what they were, but for the children of one.
Keeps(arena, key, grown, keys) ==
  /\ Len(arena) \in Nat \ {0} /\ Len(grown) = Len(arena) + 1
  /\ \A n \in 1 .. Len(arena) :
       /\ grown[n].is_file = arena[n].is_file /\ grown[n].name = arena[n].name
       /\ grown[n].file_offset = arena[n].file_offset
       /\ grown[n].file_size = arena[n].file_size
       /\ keys[n] = key[n]

\* And these are the new node and its key.
GrowsBy(arena, key, grown, keys, node, k) ==
  /\ Keeps(arena, key, grown, keys)
  /\ grown[Len(arena) + 1] = node /\ keys[Len(arena) + 1] = k

\* A tree that grows by a node keeps the nodes and keys it had.
LEMMA GrownKeeps ==
  ASSUME NEW arena, NEW key, IsPathTree(arena, key), NEW dir \in 1 .. Len(arena),
         NEW node \in Nodes, node.children = <<>>, NEW k
  PROVE  GrowsBy(arena, key, AddNode(arena, dir, node), Append(key, k), node, k)
<1> DEFINE N == Len(arena)
           keys == Append(key, k)
<1>1. N \in Nat \ {0} /\ IsArena(arena) /\ HasLen(key, N) BY NodeFields DEF IsPathTree
<1>2. IsAppend(keys, key, N, k) BY <1>1, SequenceAppend
<1> HIDE DEF keys
<1>3. keys[N + 1] = k /\ \A n \in 1 .. N : keys[n] = key[n] BY <1>1, <1>2 DEF IsAppend
<1> DEFINE grown == AddNode(arena, dir, node)
<1>4. /\ Len(grown) = N + 1 /\ grown[N + 1] = node
      /\ \A n \in 1 .. N : n # dir => grown[n] = arena[n]
      /\ grown[dir].is_file = arena[dir].is_file
      /\ grown[dir].name = arena[dir].name
      /\ grown[dir].file_offset = arena[dir].file_offset
      /\ grown[dir].file_size = arena[dir].file_size
  BY <1>1, AddedNode
<1> HIDE DEF grown
<1>5. \A n \in 1 .. N :
    /\ grown[n].is_file = arena[n].is_file /\ grown[n].name = arena[n].name
    /\ grown[n].file_offset = arena[n].file_offset
    /\ grown[n].file_size = arena[n].file_size
  BY <1>4
<1>6. Keeps(arena, key, grown, keys) BY <1>1, <1>3, <1>4, <1>5 DEF Keeps
<1> QED BY <1>3, <1>4, <1>6 DEF keys, grown, GrowsBy

\* A new directory holds no file.
LEMMA DirectoryAdded ==
  ASSUME NEW arena, NEW key, NEW list, NEW node, NEW m, FilesHeld(arena, key, list, node, m),
         NEW grown, NEW keys, Keeps(arena, key, grown, keys), ~grown[Len(arena) + 1].is_file
  PROVE  FilesHeld(grown, keys, list, node, m)
<1> DEFINE N == Len(arena)
<1>1. N \in Nat \ {0} /\ Len(grown) = N + 1 BY DEF Keeps
<1>2. ASSUME NEW f \in 1 .. m
      PROVE  /\ node[f] \in 2 .. N + 1
             /\ grown[node[f]].is_file
             /\ keys[node[f]] = Folded(list[f].path)
             /\ grown[node[f]].name = Last(list[f].path)
             /\ grown[node[f]].file_offset = FileStart(list, f)
             /\ grown[node[f]].file_size = list[f].size
  <2>1. /\ node[f] \in 2 .. N
        /\ arena[node[f]].is_file
        /\ key[node[f]] = Folded(list[f].path)
        /\ arena[node[f]].name = Last(list[f].path)
        /\ arena[node[f]].file_offset = FileStart(list, f)
        /\ arena[node[f]].file_size = list[f].size
    BY DEF FilesHeld
  <2>2. node[f] \in 1 .. N /\ node[f] \in 2 .. N + 1 BY <1>1, <2>1
  <2> QED BY <2>1, <2>2 DEF Keeps
<1>3. \A n \in 1 .. N + 1 : grown[n].is_file => \E f \in 1 .. m : node[f] = n
  <2>1. \A n \in 1 .. N : grown[n].is_file => \E f \in 1 .. m : node[f] = n BY DEF FilesHeld, Keeps
  <2> QED BY <1>1, <2>1
<1>4. \A f, g \in 1 .. m : node[f] = node[g] => f = g BY DEF FilesHeld
<1> QED BY <1>1, <1>2, <1>3, <1>4 DEF FilesHeld

\* A new file is the next one of the listing.
LEMMA FileAdded ==
  ASSUME NEW arena, NEW key, NEW list, NEW node, NEW m \in Nat,
         FilesHeld(arena, key, list, node, m),
         NEW grown, NEW keys, Keeps(arena, key, grown, keys), grown[Len(arena) + 1].is_file,
         keys[Len(arena) + 1] = Folded(list[m + 1].path),
         grown[Len(arena) + 1].name = Last(list[m + 1].path),
         grown[Len(arena) + 1].file_offset = FileStart(list, m + 1),
         grown[Len(arena) + 1].file_size = list[m + 1].size
  PROVE  FilesHeld(grown, keys, list,
                   [f \in 1 .. m + 1 |-> IF f <= m THEN node[f] ELSE Len(arena) + 1], m + 1)
<1> DEFINE N == Len(arena)
           new == [f \in 1 .. m + 1 |-> IF f <= m THEN node[f] ELSE N + 1]
<1>1. N \in Nat \ {0} /\ Len(grown) = N + 1 BY DEF Keeps
<1>2. \A f \in 1 .. m + 1 : new[f] = IF f <= m THEN node[f] ELSE N + 1 OBVIOUS
<1> HIDE DEF new
<1>3. \A f \in 1 .. m : new[f] = node[f] /\ node[f] \in 2 .. N BY <1>2 DEF FilesHeld
<1>4. new[m + 1] = N + 1 BY <1>2
<1>5. ASSUME NEW f \in 1 .. m + 1
      PROVE  /\ new[f] \in 2 .. N + 1
             /\ grown[new[f]].is_file
             /\ keys[new[f]] = Folded(list[f].path)
             /\ grown[new[f]].name = Last(list[f].path)
             /\ grown[new[f]].file_offset = FileStart(list, f)
             /\ grown[new[f]].file_size = list[f].size
  <2>1. CASE f = m + 1 BY <1>1, <1>4, <2>1
  <2>2. CASE f \in 1 .. m
    <3>1. /\ node[f] \in 2 .. N
          /\ arena[node[f]].is_file
          /\ key[node[f]] = Folded(list[f].path)
          /\ arena[node[f]].name = Last(list[f].path)
          /\ arena[node[f]].file_offset = FileStart(list, f)
          /\ arena[node[f]].file_size = list[f].size
      BY <2>2 DEF FilesHeld
    <3>2. node[f] \in 1 .. N /\ node[f] \in 2 .. N + 1 /\ new[f] = node[f] BY <1>1, <1>3, <2>2, <3>1
    <3> QED BY <3>1, <3>2 DEF Keeps
  <2> QED BY <2>1, <2>2
<1>6. \A n \in 1 .. N + 1 : grown[n].is_file => \E f \in 1 .. m + 1 : new[f] = n
  <2>1. \A n \in 1 .. N : grown[n].is_file => \E f \in 1 .. m : node[f] = n BY DEF FilesHeld, Keeps
  <2>2. \A n \in 1 .. N : grown[n].is_file => \E f \in 1 .. m + 1 : new[f] = n BY <1>3, <2>1
  <2> QED BY <1>1, <1>4, <2>2
<1>7. \A f, g \in 1 .. m + 1 : new[f] = new[g] => f = g
  <2>1. \A f, g \in 1 .. m : node[f] = node[g] => f = g BY DEF FilesHeld
  <2> QED BY <1>1, <1>3, <1>4, <2>1
<1> QED BY <1>1, <1>5, <1>6, <1>7 DEF FilesHeld, new

-----------------------------------------------------------------------------
(* insert_path(): a path either clashes or becomes a file of the tree        *)

\* One of the first paths is empty, or leads through or to another's file.
PathClash(list, m) ==
  \/ \E f \in 1 .. m : list[f].path = <<>>
  \/ \E f, g \in 1 .. m : f # g /\ Begins(Folded(list[f].path), Folded(list[g].path))

\* The walk for the file after the first k, j components deep.
PathWalked(walk, key, node, list, k, j) ==
  LET path == list[k + 1].path
      m == IF j = Len(path) THEN k + 1 ELSE k
  IN /\ IsPathTree(walk.arena, key)
     /\ FilesHeld(walk.arena, key, list, node, m)
     /\ LeadsOn(walk.arena, key, list, k, j)
     /\ walk.running_offset = FileStart(list, m + 1)
     /\ Len(key[walk.dir]) = j /\ Begins(key[walk.dir], Folded(path))
     /\ j < Len(path) => ~walk.arena[walk.dir].is_file

\* What is known of the list and of a component of the file after the first k.
LEMMA PartOf ==
  ASSUME NEW list \in Seq(FileEntry), NEW k \in 0 .. Len(list) - 1
  PROVE  LET file == list[k + 1] IN
         /\ k \in Nat /\ k + 1 \in 1 .. Len(list)
         /\ file.path \in Seq(FileNames) /\ file.size \in Nat /\ Len(file.path) \in Nat
         /\ HasLen(Parts(file), Len(file.path))
         /\ \A j \in 0 .. Len(file.path) - 1 :
              /\ Parts(file)[j + 1]
                   = [name |-> file.path[j + 1], is_last |-> j + 1 = Len(file.path),
                      size |-> file.size]
              /\ Parts(file)[j + 1] \in PathParts
              /\ file.path[j + 1] \in FileNames
<1> DEFINE file == list[k + 1]
           L == Len(file.path)
<1>1. k \in Nat /\ k + 1 \in 1 .. Len(list) /\ Len(list) \in Nat OBVIOUS
<1>2. file \in FileEntry BY <1>1
<1>3. file.path \in Seq(FileNames) /\ file.size \in Nat BY <1>2 DEF FileEntry, FileNames
<1> HIDE DEF file
<1>4. L \in Nat /\ DOMAIN file.path = 1 .. L /\ \A i \in 1 .. L : file.path[i] \in FileNames BY <1>3
<1>5. Parts(file) = [i \in 1 .. L |-> [name |-> file.path[i], is_last |-> i = L,
    size |-> file.size]]
  BY <1>4 DEF Parts
<1>6. HasLen(Parts(file), L) BY <1>4, <1>5 DEF HasLen
<1>7. ASSUME NEW j \in 0 .. L - 1
      PROVE  /\ Parts(file)[j + 1] = [name |-> file.path[j + 1], is_last |-> j + 1 = L,
                                      size |-> file.size]
             /\ Parts(file)[j + 1] \in PathParts
             /\ file.path[j + 1] \in FileNames
  <2>1. j + 1 \in 1 .. L BY <1>4
  <2>2. Parts(file)[j + 1] = [name |-> file.path[j + 1], is_last |-> j + 1 = L,
      size |-> file.size]
    BY <1>5, <2>1
  <2> DEFINE b == (j + 1 = L)
  <2>3. b \in BOOLEAN /\ file.path[j + 1] \in FileNames BY <1>4, <2>1
  <2>4. [name |-> file.path[j + 1], is_last |-> b, size |-> file.size] \in PathParts
    <3> HIDE DEF b
    <3> QED BY <2>3, <1>3 DEF PathParts
  <2> QED BY <2>2, <2>3, <2>4
<1> QED BY <1>1, <1>3, <1>4, <1>6, <1>7 DEF file

\* One component further, if that is no clash.
LEMMA PathStep ==
  ASSUME NEW list \in Seq(FileEntry), NEW k \in 0 .. Len(list) - 1,
         NEW j \in 0 .. Len(list[k + 1].path) - 1,
         NEW walk \in Climbs, walk.ok, NEW key, NEW node,
         PathWalked(walk, key, node, list, k, j),
         NEW next, Descends(walk, Parts(list[k + 1])[j + 1], next)
  PROVE  \/ next.ok /\ \E keys, nodes : PathWalked(next, keys, nodes, list, k, j + 1)
         \/ ~next.ok /\ PathClash(list, k + 1)
<1> DEFINE file == list[k + 1]
           path == file.path
           L == Len(path)
           part == Parts(file)[j + 1]
           arena == walk.arena
           dir == walk.dir
           N == Len(arena)
           at == ChildNamed(arena, dir, part.name)
           child == arena[dir].children[at]
<1>1. /\ k \in Nat /\ path \in Seq(FileNames) /\ file.size \in Nat /\ L \in Nat
      /\ part.name = path[j + 1] /\ part.is_last = (j + 1 = L) /\ part.size = file.size
      /\ part \in PathParts /\ part.name \in FileNames /\ j \in Nat /\ j < L
      /\ k + 1 \in 1 .. Len(list)
  <2>1. part = [name |-> path[j + 1], is_last |-> j + 1 = L, size |-> file.size] BY PartOf
  <2>2. /\ path \in Seq(FileNames) /\ file.size \in Nat /\ L \in Nat /\ part \in PathParts
        /\ path[j + 1] \in FileNames
    BY PartOf
  <2>3. k \in Nat /\ k + 1 \in 1 .. Len(list) /\ j \in Nat /\ j < L BY PartOf
  <2> HIDE DEF part, path, file, L
  <2> QED BY ONLY <2>1, <2>2, <2>3
<1>2. /\ IsArena(arena) /\ dir \in 1 .. N /\ N \in Nat \ {0}
      /\ walk.running_offset \in Nat
  BY NodeFields DEF Climbs
<1>3. /\ IsPathTree(arena, key)
      /\ FilesHeld(arena, key, list, node, k)
      /\ LeadsOn(arena, key, list, k, j)
      /\ walk.running_offset = FileStart(list, k + 1)
      /\ Len(key[dir]) = j /\ Begins(key[dir], Folded(path))
      /\ ~arena[dir].is_file
  BY <1>1 DEF PathWalked
<1> DEFINE q == Append(key[dir], Fold[part.name])
<1>4. /\ \A n \in 1 .. N : key[n] \in Keys
      /\ key[1] = <<>> /\ KeysApart(key, N)
  BY <1>3 DEF IsPathTree
<1>5. /\ q \in Keys /\ Len(q) = j + 1 /\ Begins(q, Folded(path))
      /\ j + 1 = L => q = Folded(path)
  <2>1. key[dir] \in Keys /\ q = Append(key[dir], Fold[path[Len(key[dir]) + 1]]) BY <1>1, <1>2, <1>3, <1>4
  <2> DEFINE p == key[dir]
  <2>2. p \in Keys /\ q = Append(p, Fold[path[Len(p) + 1]]) /\ Len(p) = j
        /\ Begins(p, Folded(path))
    BY <1>3, <2>1
  <2>3. path \in Seq(FileNames) /\ j < Len(path) /\ L = Len(path) BY <1>1
  <2> HIDE DEF q, p, path, L
  <2>4. /\ q \in Keys /\ Len(q) = Len(p) + 1 /\ Begins(q, Folded(path))
        /\ Len(q) = Len(path) => q = Folded(path)
    BY ONLY <2>2, <2>3, KeyExtends, ZenonT(40)
  <2> QED BY <2>2, <2>3, <2>4
<1> HIDE DEF file, part, arena, dir, N, at, child
<1>6. CASE at # 0
  <2>1. /\ next.arena = arena /\ next.running_offset = walk.running_offset
        /\ next.dir = child /\ next.ok = (~part.is_last /\ ~arena[child].is_file)
    BY <1>6 DEF Descends, at, arena, dir, part, file, child
  <2>2. at \in 1 .. Len(arena[dir].children) /\ Fold[arena[child].name] = Fold[part.name]
    BY <1>2, <1>6, ChildFound DEF at, child, N
  <2>3. child \in 1 .. N /\ child > dir
        /\ key[child] = Append(key[dir], Fold[arena[child].name])
    <3>1. child \in 1 .. N BY <1>2, <2>2 DEF IsArena, child, N
    <3>2. \A n \in 1 .. N : \A i \in 1 .. Len(arena[n].children) :
        /\ arena[n].children[i] > n
        /\ key[arena[n].children[i]] = Append(key[n], Fold[arena[arena[n].children[i]].name])
      BY <1>3 DEF IsPathTree, ChildrenKeyed, N
    <3> QED BY <1>2, <2>2, <3>1, <3>2 DEF child
  <2>4. key[child] = q /\ child \in 2 .. N BY <1>2, <2>2, <2>3
  <2> HIDE DEF q
  <2>5. CASE ~part.is_last /\ ~arena[child].is_file
    <3>1. j + 1 # L /\ next.ok BY <1>1, <2>1, <2>5
    <3>2. LeadsOn(next.arena, key, list, k, j + 1)
      <4>1. \A n \in 2 .. N :
          \/ \E f \in 1 .. k : Begins(key[n], Folded(list[f].path))
          \/ j > 0 /\ Len(key[n]) <= j /\ Begins(key[n], Folded(list[k + 1].path))
        BY <1>3 DEF LeadsOn, N
      <4>2. \A n \in 2 .. N : Len(key[n]) \in Nat BY <1>4 DEF Keys
      <4>3. j + 1 > 0 /\ \A x \in Nat : x <= j => x <= j + 1 BY <1>1
      <4> QED BY <2>1, <4>1, <4>2, <4>3 DEF LeadsOn, N
    <3>3. PathWalked(next, key, node, list, k, j + 1)
      BY <1>3, <1>5, <2>1, <2>4, <2>5, <3>1, <3>2 DEF PathWalked, file
    <3> QED BY <3>1, <3>3
  <2>6. CASE arena[child].is_file
    <3>1. PICK f \in 1 .. k : node[f] = child BY <1>3, <2>3, <2>6 DEF FilesHeld, N
    <3>2. q = Folded(list[f].path) BY <1>3, <2>4, <3>1 DEF FilesHeld
    <3>3. f \in 1 .. k + 1 /\ k + 1 \in 1 .. k + 1 /\ f # k + 1 BY <1>1, <3>1
    <3>4. PathClash(list, k + 1) BY <1>5, <3>2, <3>3 DEF PathClash, file
    <3> QED BY <2>1, <2>6, <3>4
  <2>7. CASE part.is_last
    <3>1. q = Folded(path) BY <1>1, <1>5, <2>7
    <3>2. PICK f \in 1 .. k : Begins(q, Folded(list[f].path))
      <4>1. ~ (Len(q) <= j) BY <1>1, <1>5
      <4> QED BY <1>3, <2>4, <4>1 DEF LeadsOn, N
    <3>3. f \in 1 .. k + 1 /\ k + 1 \in 1 .. k + 1 /\ f # k + 1 BY <1>1, <3>2
    <3>4. PathClash(list, k + 1) BY <3>1, <3>2, <3>3 DEF PathClash, file
    <3> QED BY <2>1, <2>7, <3>4
  <2> QED BY <1>1, <2>5, <2>6, <2>7
<1>7. CASE at = 0
  <2> DEFINE new == NewNode(walk, part)
             grown == AddNode(arena, dir, new)
             keys == Append(key, q)
  <2>1. /\ next.arena = grown
        /\ next.running_offset
             = IF part.is_last THEN walk.running_offset + part.size ELSE walk.running_offset
        /\ next.dir = N + 1 /\ next.ok
    BY <1>7 DEF Descends, at, arena, dir, part, file, N
  <2>2. /\ new.is_file = part.is_last /\ new.name = part.name /\ new.children = <<>>
        /\ part.is_last => new.file_offset = walk.running_offset /\ new.file_size = part.size
    BY DEF NewNode
  <2>3. new \in Nodes
    <3> DEFINE fo == IF part.is_last THEN walk.running_offset ELSE 0
               fs == IF part.is_last THEN part.size ELSE 0
    <3>1. fo \in Nat /\ fs \in Nat /\ <<>> \in Seq(Nat) BY <1>1, <1>2
    <3>2. new = [is_file |-> part.is_last, name |-> part.name, children |-> <<>>,
        file_offset |-> fo, file_size |-> fs]
      BY DEF NewNode
    <3>3. part.is_last \in BOOLEAN /\ part.name \in FileNames \cup {""} BY <1>1 DEF PathParts
    <3> HIDE DEF new, fo, fs
    <3> QED BY <3>1, <3>2, <3>3, NodeBuilt
  <2> HIDE DEF new
  <2>4. IsPathTree(grown, keys)
    <3>1. Fold[new.name] = Fold[part.name] /\ ChildNamed(arena, dir, new.name) = 0 BY <1>7, <2>2 DEF at
    <3>2. keys = Append(key, Append(key[dir], Fold[new.name])) BY <3>1
    <3>3. dir \in 1 .. Len(arena) /\ new.name \in FileNames BY <1>1, <1>2, <2>2 DEF N
    <3> HIDE DEF keys, q
    <3> QED BY <1>3, <2>2, <2>3, <3>1, <3>2, <3>3, TreeGrows
  <2>5. Keeps(arena, key, grown, keys) /\ grown[N + 1] = new /\ keys[N + 1] = q
    <3>1. dir \in 1 .. Len(arena) BY <1>2 DEF N
    <3>2. IsPathTree(arena, key) /\ new \in Nodes /\ new.children = <<>> BY <1>3, <2>2, <2>3
    <3> HIDE DEF q, keys, grown, path
    <3>3. GrowsBy(arena, key, AddNode(arena, dir, new), Append(key, q), new, q)
      BY ONLY <3>1, <3>2, GrownKeeps
    <3> QED BY <3>3 DEF N, keys, grown, GrowsBy
  <2> HIDE DEF grown, keys, q
  <2>6. LeadsOn(grown, keys, list, k, j + 1)
    <3>1. ASSUME NEW n \in 2 .. N + 1
          PROVE  \/ \E f \in 1 .. k : Begins(keys[n], Folded(list[f].path))
                 \/ j + 1 > 0 /\ Len(keys[n]) <= j + 1
                    /\ Begins(keys[n], Folded(list[k + 1].path))
      <4>1. CASE n = N + 1 BY <1>1, <1>5, <2>5, <4>1 DEF file
      <4>2. CASE n \in 2 .. N
        <5>1. keys[n] = key[n] /\ Len(key[n]) \in Nat BY <1>2, <1>4, <2>5, <4>2 DEF Keeps, N, Keys
        <5>2. \/ \E f \in 1 .. k : Begins(key[n], Folded(list[f].path))
              \/ Len(key[n]) <= j /\ Begins(key[n], Folded(list[k + 1].path))
          BY <1>3, <4>2 DEF LeadsOn, N
        <5> QED BY <1>1, <5>1, <5>2
      <4> QED BY <1>2, <3>1, <4>1, <4>2
    <3> QED BY <2>5, <3>1 DEF LeadsOn, Keeps, N
  <2>7. Len(keys[next.dir]) = j + 1 /\ Begins(keys[next.dir], Folded(path)) BY <1>5, <2>1, <2>5
  <2>8. CASE ~part.is_last
    <3>1. FilesHeld(grown, keys, list, node, k) BY <1>3, <2>2, <2>5, <2>8, DirectoryAdded DEF N
    <3>2. j + 1 # L /\ ~grown[next.dir].is_file BY <1>1, <2>1, <2>2, <2>5, <2>8
    <3>3. PathWalked(next, keys, node, list, k, j + 1)
      BY <1>3, <2>1, <2>4, <2>6, <2>7, <2>8, <3>1, <3>2 DEF PathWalked, file
    <3> QED BY <2>1, <3>3
  <2>9. CASE part.is_last
    <3> DEFINE nodes == [f \in 1 .. k + 1 |-> IF f <= k THEN node[f] ELSE N + 1]
    <3>1. j + 1 = L BY <1>1, <2>9
    <3>2. FilesHeld(grown, keys, list, nodes, k + 1)
      <4>1. /\ grown[N + 1].is_file
            /\ keys[N + 1] = Folded(path)
            /\ grown[N + 1].name = Last(path)
            /\ grown[N + 1].file_offset = FileStart(list, k + 1)
            /\ grown[N + 1].file_size = list[k + 1].size
        BY <1>1, <1>3, <1>5, <2>2, <2>5, <2>9, <3>1 DEF Last, file
      <4> QED BY <1>1, <1>3, <2>5, <4>1, FileAdded DEF N, file
    <3>3. next.running_offset = FileStart(list, k + 1 + 1)
      <4>1. FileStart(list, k + 1 + 1) = FileStart(list, k + 1) + list[k + 1].size BY <1>1, FileStarts
      <4> QED BY <1>1, <1>3, <2>1, <2>9, <4>1 DEF file
    <3> HIDE DEF nodes
    <3>4. PathWalked(next, keys, nodes, list, k, j + 1)
      BY <1>1, <2>1, <2>4, <2>6, <2>7, <3>1, <3>2, <3>3 DEF PathWalked, file
    <3> QED BY <2>1, <3>4
  <2> QED BY <1>1, <2>8, <2>9
<1> QED BY <1>6, <1>7

\* The tree of the first files, unless two of them clash.
Inserted(tree, key, node, list, k) ==
  /\ IsPathTree(tree.arena, key)
  /\ FilesHeld(tree.arena, key, list, node, k)
  /\ LeadsOn(tree.arena, key, list, k, 0)
  /\ tree.running_offset = FileStart(list, k + 1)
  /\ \A f \in 1 .. k : list[f].path # <<>>

TreeHolds(tree, list, k) ==
  \/ tree.ok /\ \E key, node : Inserted(tree, key, node, list, k)
  \/ ~tree.ok /\ PathClash(list, k)

\* A clash among some files is one among more of them.
LEMMA ClashStays ==
  ASSUME NEW list, NEW k \in Nat, PathClash(list, k)
  PROVE  PathClash(list, k + 1)
<1>1. \A f \in 1 .. k : f \in 1 .. k + 1 OBVIOUS
<1> QED BY <1>1 DEF PathClash

\* What insert_path() starts from.
WalkBase(tree, path) == [tree EXCEPT !.ok = @ /\ path # <<>>, !.dir = 1]

\* Where insert_path() begins with a path.
LEMMA WalkBaseFields ==
  ASSUME NEW tree \in Climbs, NEW path
  PROVE  LET walk == WalkBase(tree, path) IN
         /\ walk \in Climbs /\ walk.arena = tree.arena
         /\ walk.running_offset = tree.running_offset
         /\ walk.ok = (tree.ok /\ path # <<>>) /\ walk.dir = 1
<1> DEFINE good == tree.ok /\ path # <<>>
           walk == WalkBase(tree, path)
<1>1. /\ tree = [arena |-> tree.arena, running_offset |-> tree.running_offset,
                 ok |-> tree.ok, dir |-> tree.dir]
      /\ tree.arena \in Seq(Nodes) /\ IsArena(tree.arena)
      /\ tree.running_offset \in Nat /\ tree.ok \in BOOLEAN
  BY DEF Climbs
<1>2. good \in BOOLEAN /\ good = (tree.ok /\ path # <<>>) OBVIOUS
<1>3. walk = [tree EXCEPT !.ok = good, !.dir = 1] BY DEF WalkBase
<1> HIDE DEF good, walk
<1>4. walk = [arena |-> tree.arena, running_offset |-> tree.running_offset,
    ok |-> good, dir |-> 1]
  BY <1>1, <1>3
<1>5. walk.arena = tree.arena /\ walk.running_offset = tree.running_offset
      /\ walk.ok = good /\ walk.dir = 1
  BY <1>4
<1>6. walk \in Climbs
  <2>1. Len(tree.arena) \in Nat /\ Len(tree.arena) >= 1 BY <1>1 DEF IsArena
  <2>2. 1 \in 1 .. Len(tree.arena) /\ 1 \in Nat BY <2>1
  <2> QED BY <2>2, <1>1, <1>2, <1>4 DEF Climbs
<1> QED BY <1>2, <1>5, <1>6 DEF walk

\* Before its first component, a path has been walked for none.
LEMMA WalkBegins ==
  ASSUME NEW list \in Seq(FileEntry), NEW k \in 0 .. Len(list) - 1, NEW tree \in Climbs,
         TreeHolds(tree, list, k)
  PROVE  LET walk == WalkBase(tree, list[k + 1].path) IN
         /\ walk.ok => /\ list[k + 1].path # <<>> /\ \A f \in 1 .. k : list[f].path # <<>>
                       /\ \E key, node : PathWalked(walk, key, node, list, k, 0)
         /\ ~walk.ok => PathClash(list, k + 1)
<1> DEFINE path == list[k + 1].path
           good == tree.ok /\ path # <<>>
           walk == WalkBase(tree, path)
<1>2. good \in BOOLEAN /\ good = (tree.ok /\ path # <<>>) BY DEF Climbs
<1>4. k \in Nat /\ path \in Seq(FileNames) /\ Len(path) \in Nat /\ k + 1 \in 1 .. k + 1 BY PartOf
<1> HIDE DEF good
<1>6. walk.arena = tree.arena /\ walk.running_offset = tree.running_offset
      /\ walk.ok = good /\ walk.dir = 1
  BY <1>2, WalkBaseFields
<1> HIDE DEF walk
<1>8. ASSUME ~good PROVE PathClash(list, k + 1)
  <2>1. CASE path = <<>> BY <2>1, <1>4 DEF PathClash
  <2>2. CASE ~tree.ok BY <2>2, <1>4, ClashStays DEF TreeHolds
  <2> QED BY <1>2, <1>8, <2>1, <2>2
<1>9. ASSUME good
      PROVE  /\ path # <<>> /\ \A f \in 1 .. k : list[f].path # <<>>
             /\ \E key, node : PathWalked(walk, key, node, list, k, 0)
  <2>1. PICK key, node : Inserted(tree, key, node, list, k) BY <1>2, <1>9 DEF TreeHolds
  <2>2. path # <<>> /\ Len(path) # 0 /\ 0 < Len(path)
    <3>1. path # <<>> BY <1>2, <1>9
    <3> HIDE DEF path
    <3> QED BY <3>1, <1>4
  <2>3. key[1] = <<>> /\ ~tree.arena[1].is_file BY <2>1 DEF Inserted, IsPathTree
  <2>4. Len(key[1]) = 0 /\ Begins(key[1], Folded(path))
    <3>1. Len(Folded(path)) \in Nat /\ Len(<<>>) = 0 BY <1>4, FoldedKey
    <3> QED BY <2>3, <3>1 DEF Begins
  <2>5. PathWalked(walk, key, node, list, k, 0) BY <1>6, <2>1, <2>2, <2>3, <2>4 DEF PathWalked, Inserted
  <2> QED BY <2>1, <2>2, <2>5 DEF Inserted
<1> QED BY <1>2, <1>6, <1>8, <1>9 DEF walk

\* What it ends with.
LEMMA InsertStep ==
  ASSUME NEW list \in Seq(FileEntry), NEW k \in 0 .. Len(list) - 1, NEW tree \in Climbs
  PROVE  /\ InsertPath(tree, list[k + 1]) \in Climbs
         /\ TreeHolds(tree, list, k) => TreeHolds(InsertPath(tree, list[k + 1]), list, k + 1)
<1> DEFINE file == list[k + 1]
           path == file.path
           parts == Parts(file)
           L == Len(path)
           base == WalkBase(tree, path)
<1>1. /\ k \in Nat /\ k + 1 \in 1 .. Len(list) /\ L \in Nat
      /\ HasLen(parts, L) /\ \A j \in 1 .. L : parts[j] \in PathParts
  <2>1. \A j \in 0 .. L - 1 : parts[j + 1] \in PathParts BY PartOf
  <2>2. k \in Nat /\ k + 1 \in 1 .. Len(list) /\ L \in Nat /\ HasLen(parts, L) BY PartOf
  <2> HIDE DEF parts, L
  <2>3. \A j \in 1 .. L : j - 1 \in 0 .. L - 1 /\ (j - 1) + 1 = j BY <2>2
  <2> QED BY <2>1, <2>2, <2>3
<1>2. base \in Climbs BY WalkBaseFields
<1>3. InsertPath(tree, file) = FoldLeft(Descend, base, parts) BY DEF InsertPath, WalkBase
<1> HIDE DEF base, parts
<1>4. \A j \in 1 .. L : \A x \in Climbs : Descends(x, parts[j], Descend(x, parts[j])) BY <1>1, DescendStep
<1>5. \A j \in 1 .. L : \A x \in Climbs : Descend(x, parts[j]) \in Climbs BY <1>4 DEF Descends
<1>6. PICK run : /\ IsDescendRun(run, base, parts, L, Climbs)
                 /\ FoldLeft(Descend, base, parts) = run[L]
  BY <1>1, <1>2, <1>5, DescendRun
<1>7. /\ \A j \in 0 .. L : run[j] \in Climbs
      /\ run[0] = base
      /\ \A j \in 1 .. L : Descends(run[j - 1], parts[j], run[j])
  <2>1. /\ \A j \in 0 .. L : run[j] \in Climbs
        /\ run[0] = base
        /\ \A j \in 1 .. L : run[j] = Descend(run[j - 1], parts[j])
    BY <1>6 DEF IsDescendRun
  <2>2. \A j \in 1 .. L : j - 1 \in 0 .. L BY <1>1
  <2> QED BY <1>4, <2>1, <2>2
<1>8. run[L] \in Climbs BY <1>1, <1>7
<1>9. ASSUME TreeHolds(tree, list, k) PROVE TreeHolds(run[L], list, k + 1)
  <2>1. /\ base.ok => /\ path # <<>> /\ \A f \in 1 .. k : list[f].path # <<>>
                      /\ \E key, node : PathWalked(base, key, node, list, k, 0)
        /\ ~base.ok => PathClash(list, k + 1)
    BY <1>9, WalkBegins DEF base
  <2>2. CASE ~base.ok
    <3> DEFINE D == {j \in Nat : j <= L => ~run[j].ok}
    <3>1. 0 \in D BY <1>7, <2>2
    <3>2. ASSUME NEW j \in Nat, j \in D PROVE j + 1 \in D
      <4> SUFFICES ASSUME j + 1 <= L PROVE ~run[j + 1].ok OBVIOUS
      <4>1. j + 1 \in 1 .. L /\ (j + 1) - 1 = j /\ ~run[j].ok BY <1>1, <3>2
      <4>2. Descends(run[j], parts[j + 1], run[j + 1]) BY <1>7, <4>1
      <4> QED BY ONLY <4>1, <4>2 DEF Descends
    <3>3. L \in D BY <1>1, <3>1, <3>2, NatInduct
    <3> QED BY <1>1, <2>1, <2>2, <3>3 DEF TreeHolds
  <2>3. CASE base.ok
    <3> DEFINE Good(j) == \/ run[j].ok /\ \E key, node : PathWalked(run[j], key, node, list, k, j)
                          \/ ~run[j].ok /\ PathClash(list, k + 1)
               D == {j \in Nat : j <= L => Good(j)}
    <3>1. 0 \in D BY <1>7, <2>1, <2>3
    <3>2. ASSUME NEW j \in Nat, j \in D PROVE j + 1 \in D
      <4> SUFFICES ASSUME j + 1 <= L PROVE Good(j + 1) OBVIOUS
      <4>1. j + 1 \in 1 .. L /\ (j + 1) - 1 = j /\ j \in 0 .. L - 1 /\ j \in 0 .. L /\ Good(j)
        BY <1>1, <3>2
      <4>2. Descends(run[j], parts[j + 1], run[j + 1]) /\ run[j] \in Climbs BY <1>7, <4>1
      <4>3. CASE run[j].ok
        <5>1. PICK key, node : PathWalked(run[j], key, node, list, k, j) BY <4>1, <4>3
        <5> HIDE DEF L
        <5>2. \/ run[j + 1].ok /\ \E keys, nodes : PathWalked(run[j + 1], keys, nodes, list, k, j + 1)
              \/ ~run[j + 1].ok /\ PathClash(list, k + 1)
          BY <4>1, <4>2, <4>3, <5>1, PathStep DEF L, parts
        <5> QED BY <5>2
      <4>4. CASE ~run[j].ok BY <4>1, <4>2, <4>4 DEF Descends
      <4> QED BY <4>3, <4>4
    <3> HIDE DEF Good
    <3>3. L \in D
      <4> HIDE DEF D
      <4> QED BY <1>1, <3>1, <3>2, NatInduct
    <3>4. Good(L) BY <1>1, <3>3
    <3>5. CASE ~run[L].ok BY <3>4, <3>5 DEF Good, TreeHolds
    <3>6. CASE run[L].ok
      <4>1. PICK key, node : PathWalked(run[L], key, node, list, k, L) BY <3>4, <3>6 DEF Good
      <4>2. /\ IsPathTree(run[L].arena, key)
            /\ FilesHeld(run[L].arena, key, list, node, k + 1)
            /\ LeadsOn(run[L].arena, key, list, k, L)
            /\ run[L].running_offset = FileStart(list, (k + 1) + 1)
        BY <4>1 DEF PathWalked
      <4>3. LeadsOn(run[L].arena, key, list, k + 1, 0)
        <5>1. \A f \in 1 .. k : f \in 1 .. k + 1 BY <1>1
        <5>2. k + 1 \in 1 .. k + 1 BY <1>1
        <5> QED BY <4>2, <5>1, <5>2 DEF LeadsOn
      <4>4. \A f \in 1 .. k + 1 : list[f].path # <<>> BY <1>1, <2>1, <2>3
      <4>5. Inserted(run[L], key, node, list, k + 1) BY <4>2, <4>3, <4>4 DEF Inserted
      <4> QED BY <3>6, <4>5 DEF TreeHolds
    <3> QED BY <1>8, <3>5, <3>6 DEF Climbs
  <2> QED BY <2>2, <2>3
<1> QED BY <1>3, <1>6, <1>8, <1>9

\* The tree of no files.
LEMMA EmptyTreeHolds ==
  ASSUME NEW list \in Seq(FileEntry)
  PROVE  EmptyTree \in Climbs /\ TreeHolds(EmptyTree, list, 0)
<1> DEFINE arena == <<RootNode>>
           key == <<<<>>>>
<1>1. RootNode \in Nodes /\ RootNode.children = <<>> /\ ~RootNode.is_file
  <2>1. FALSE \in BOOLEAN /\ "" \in FileNames \cup {""} /\ <<>> \in Seq(Nat) /\ 0 \in Nat OBVIOUS
  <2>2. RootNode \in Nodes BY <2>1, NodeBuilt DEF RootNode
  <2> QED BY <2>2 DEF RootNode
<1>2. Len(arena) = 1 /\ arena[1] = RootNode /\ arena \in Seq(Nodes) BY <1>1
<1>3. HasLen(key, 1) /\ key[1] = <<>> /\ <<>> \in Keys BY SequenceSingle DEF Keys
<1> HIDE DEF arena, key
<1>4. IsArena(arena) BY <1>1, <1>2 DEF IsArena
<1>5. ChildrenKeyed(arena, key) BY <1>1, <1>2 DEF ChildrenKeyed
<1>6. IsPathTree(arena, key) BY <1>1, <1>2, <1>3, <1>4, <1>5 DEF IsPathTree, KeysApart
<1>7. FilesHeld(arena, key, list, <<>>, 0) /\ LeadsOn(arena, key, list, 0, 0)
  BY <1>1, <1>2 DEF FilesHeld, LeadsOn
<1>8. EmptyTree.arena = arena /\ EmptyTree.running_offset = 0 /\ EmptyTree.ok BY DEF EmptyTree, arena
<1>9. FileStart(list, 0 + 1) = 0 BY FileStarts
<1>10. Inserted(EmptyTree, key, <<>>, list, 0) BY <1>6, <1>7, <1>8, <1>9 DEF Inserted
<1>11. EmptyTree \in Climbs
  <2>1. EmptyTree = [arena |-> arena, running_offset |-> 0, ok |-> TRUE, dir |-> 1]
    BY DEF EmptyTree, arena
  <2> DEFINE w == EmptyTree
  <2>2. /\ w.arena = arena /\ w.running_offset = 0 /\ w.ok = TRUE /\ w.dir = 1
        /\ w = [arena |-> w.arena, running_offset |-> w.running_offset, ok |-> w.ok,
                dir |-> w.dir]
    BY <2>1
  <2> HIDE DEF w
  <2>3. w \in [arena : Seq(Nodes), running_offset : Nat, ok : BOOLEAN, dir : Nat]
    <3> DEFINE t == TRUE
               z == 0
               o == 1
    <3>1. w = [arena |-> arena, running_offset |-> z, ok |-> t, dir |-> o] BY <2>2
    <3>2. t \in BOOLEAN /\ z \in Nat /\ o \in Nat OBVIOUS
    <3> HIDE DEF t, z, o
    <3> QED BY <1>2, <3>1, <3>2
  <2>4. w.dir \in 1 .. Len(w.arena) BY <1>2, <2>2
  <2> QED BY <1>4, <2>2, <2>3, <2>4 DEF Climbs, w
<1> QED BY <1>8, <1>10, <1>11 DEF TreeHolds

\* After the whole listing: the tree holds each file, or there is a clash.
LEMMA PathTreeHolds ==
  ASSUME NEW list \in Seq(FileEntry)
  PROVE  PathTree(list) \in Climbs /\ TreeHolds(PathTree(list), list, Len(list))
<1> DEFINE n == Len(list)
<1>1. n \in Nat /\ HasLen(list, n) BY SeqIsSequence DEF HasLen
<1>2. EmptyTree \in Climbs /\ TreeHolds(EmptyTree, list, 0) BY EmptyTreeHolds
<1>3. ASSUME NEW k \in 1 .. n, NEW x \in Climbs
      PROVE  /\ InsertPath(x, list[k]) \in Climbs
             /\ TreeHolds(x, list, k - 1) => TreeHolds(InsertPath(x, list[k]), list, k)
  <2>1. k - 1 \in 0 .. Len(list) - 1 /\ (k - 1) + 1 = k BY <1>1
  <2> QED BY <2>1, InsertStep
<1>4. PICK run : /\ IsInsertPathRun(run, EmptyTree, list, n, Climbs)
                 /\ FoldLeft(InsertPath, EmptyTree, list) = run[n]
  BY <1>1, <1>2, <1>3, InsertPathRun
<1>5. /\ \A k \in 0 .. n : run[k] \in Climbs
      /\ run[0] = EmptyTree
      /\ \A k \in 1 .. n : run[k] = InsertPath(run[k - 1], list[k])
  BY <1>4 DEF IsInsertPathRun
<1> DEFINE D == {k \in Nat : k <= n => TreeHolds(run[k], list, k)}
<1>6. 0 \in D BY <1>2, <1>5
<1>7. ASSUME NEW k \in Nat, k \in D PROVE k + 1 \in D
  <2> SUFFICES ASSUME k + 1 <= n PROVE TreeHolds(run[k + 1], list, k + 1) OBVIOUS
  <2>1. k + 1 \in 1 .. n /\ (k + 1) - 1 = k /\ k \in 0 .. n /\ TreeHolds(run[k], list, k) BY <1>1, <1>7
  <2> QED BY <1>3, <1>5, <2>1
<1>8. n \in D
  <2> HIDE DEF D
  <2> QED BY <1>1, <1>6, <1>7, NatInduct
<1> QED BY <1>1, <1>4, <1>5, <1>8 DEF PathTree

\* Every proper prefix of a key is the key of a directory.
HasPrefixes(arena, key, n) ==
  \A q \in Keys : Begins(q, key[n]) /\ Len(q) < Len(key[n]) =>
    \E m \in 1 .. Len(arena) : key[m] = q /\ ~arena[m].is_file

\* Every node lies below nodes for each prefix of its key.
LEMMA PrefixesThere ==
  ASSUME NEW arena, NEW key, IsPathTree(arena, key)
  PROVE  \A n \in 1 .. Len(arena) : HasPrefixes(arena, key, n)
<1> DEFINE N == Len(arena)
           D == {x \in Nat : \A n \in 1 .. N : n <= x => HasPrefixes(arena, key, n)}
<1>1. /\ IsArena(arena) /\ N \in Nat \ {0}
      /\ \A n \in 1 .. N : key[n] \in Keys
      /\ key[1] = <<>>
      /\ \A n \in 2 .. N : Fold[arena[n].name] \in DOMAIN Rank
  <2>1. /\ IsArena(arena)
        /\ \A n \in 1 .. N : key[n] \in Keys
        /\ key[1] = <<>>
        /\ \A n \in 2 .. N : arena[n].name \in FileNames
    BY DEF IsPathTree
  <2>2. N \in Nat \ {0} BY <2>1 DEF IsArena
  <2> HIDE DEF D, N
  <2> QED BY <2>1, <2>2, ZarLayoutAssumption DEF FileNames
<1>2. /\ \A n \in 1 .. N : \A i \in 1 .. Len(arena[n].children) :
           key[arena[n].children[i]] = Append(key[n], Fold[arena[arena[n].children[i]].name])
      /\ \A n \in 1 .. N : arena[n].is_file => Len(arena[n].children) = 0
      /\ \A c \in 2 .. N : \E n \in 1 .. c - 1 :
           \E i \in 1 .. Len(arena[n].children) : arena[n].children[i] = c
  BY DEF IsPathTree, ChildrenKeyed
<1>3. 0 \in D OBVIOUS
<1>4. ASSUME NEW x \in Nat, x \in D PROVE x + 1 \in D
  <2> SUFFICES ASSUME NEW n \in 1 .. N, n <= x + 1, n > x PROVE HasPrefixes(arena, key, n) BY <1>4
  <2> SUFFICES ASSUME NEW q \in Keys, Begins(q, key[n]), Len(q) < Len(key[n])
      PROVE  \E m \in 1 .. N : key[m] = q /\ ~arena[m].is_file
    BY DEF HasPrefixes
  <2>1. Len(q) \in Nat /\ Len(<<>>) = 0 BY DEF Keys
  <2>2. n \in 2 .. N BY <1>1, <2>1
  <2>3. PICK p \in 1 .. n - 1 : \E i \in 1 .. Len(arena[p].children) : arena[p].children[i] = n
    BY <1>2, <2>2
  <2>4. PICK i \in 1 .. Len(arena[p].children) : arena[p].children[i] = n BY <2>3
  <2>5. p \in 1 .. N /\ p <= x BY <1>1, <2>2
  <2>6. ~arena[p].is_file BY <1>2, <2>4, <2>5
  <2> DEFINE name == Fold[arena[n].name]
  <2>7. key[n] = Append(key[p], name) /\ name \in DOMAIN Rank /\ key[p] \in Keys
    <3>1. key[arena[p].children[i]] = Append(key[p], Fold[arena[arena[p].children[i]].name]) BY <1>2, <2>5
    <3> QED BY <1>1, <2>2, <2>4, <2>5, <3>1
  <2> HIDE DEF name
  <2> DEFINE t == key[p]
             l == Len(t)
  <2>8. /\ l \in Nat /\ Len(key[n]) = l + 1
        /\ \A j \in 1 .. l : key[n][j] = t[j]
    <3>1. l \in Nat /\ HasLen(t, l) BY <2>7, SeqIsSequence DEF Keys
    <3> DEFINE u == key[n]
    <3>2. IsAppend(u, t, l, name) BY <2>7, <3>1, SequenceAppend
    <3> HIDE DEF l, t, u, N, D
    <3>3. Len(u) = l + 1 /\ \A j \in 1 .. l + 1 : u[j] = IF j <= l THEN t[j] ELSE name
      BY <3>2, SequenceLength DEF IsAppend
    <3>4. \A j \in 1 .. l : u[j] = t[j] BY <3>1, <3>3
    <3> QED BY <3>1, <3>3, <3>4 DEF u
  <2>9. Begins(q, t) /\ Len(q) <= l
    <3>1. Len(q) <= l BY <2>1, <2>8
    <3>2. \A j \in 1 .. Len(q) : j \in 1 .. l /\ q[j] = key[n][j] BY <2>1, <2>8, <3>1 DEF Begins
    <3> QED BY <2>8, <3>1, <3>2 DEF Begins
  <2>10. CASE Len(q) = l
    <3>1. q = t BY <2>7, <2>9, <2>10, KeyBegins
    <3> QED BY <2>5, <2>6, <3>1
  <2>11. CASE Len(q) < l BY <1>4, <2>5, <2>9, <2>11 DEF HasPrefixes
  <2> QED BY <2>1, <2>8, <2>9, <2>10, <2>11
<1>5. N \in D
  <2> HIDE DEF D
  <2> QED BY <1>1, <1>3, <1>4, NatInduct
<1> QED BY <1>1, <1>5

\* The files of a tree do not clash.
LEMMA NoClash ==
  ASSUME NEW list \in Seq(FileEntry), NEW tree, NEW key, NEW node, NEW k \in 0 .. Len(list),
         Inserted(tree, key, node, list, k)
  PROVE  ~PathClash(list, k)
<1> DEFINE arena == tree.arena
<1>1. IsPathTree(arena, key) /\ FilesHeld(arena, key, list, node, k)
      /\ \A f \in 1 .. k : list[f].path # <<>>
  BY DEF Inserted
<1> SUFFICES ASSUME NEW f \in 1 .. k, NEW g \in 1 .. k, f # g,
           Begins(Folded(list[f].path), Folded(list[g].path))
    PROVE  FALSE
  BY <1>1 DEF PathClash
<1> HIDE DEF arena
<1>2. /\ node[f] \in 1 .. Len(arena) /\ node[g] \in 1 .. Len(arena)
      /\ arena[node[f]].is_file
      /\ key[node[f]] = Folded(list[f].path) /\ key[node[g]] = Folded(list[g].path)
      /\ node[f] # node[g]
  BY <1>1 DEF FilesHeld
<1>3. /\ \A n \in 1 .. Len(arena) : key[n] \in Keys
      /\ KeysApart(key, Len(arena))
  BY <1>1 DEF IsPathTree
<1> DEFINE p == key[node[f]]
           q == key[node[g]]
<1>4. p \in Keys /\ q \in Keys /\ Begins(p, q) /\ Len(p) \in Nat /\ Len(q) \in Nat
      /\ Len(p) <= Len(q)
  BY <1>2, <1>3 DEF Keys, Begins
<1>5. CASE Len(p) = Len(q)
  <2>1. p = q BY <1>4, <1>5, KeyBegins
  <2> QED BY <1>2, <1>3, <2>1 DEF KeysApart
<1>6. CASE Len(p) < Len(q)
  <2>1. HasPrefixes(arena, key, node[g]) BY <1>1, <1>2, PrefixesThere
  <2>2. PICK m \in 1 .. Len(arena) : key[m] = p /\ ~arena[m].is_file BY <2>1, <1>4, <1>6 DEF HasPrefixes
  <2>3. m = node[f] BY <1>2, <1>3, <2>2 DEF KeysApart
  <2> QED BY <1>2, <2>2, <2>3
<1> HIDE DEF p, q
<1> QED BY <1>4, <1>5, <1>6

\* Beginning is what IsPrefix() says of sequences.
LEMMA BeginsIsPrefix ==
  ASSUME NEW s \in Keys, NEW t \in Keys
  PROVE  Begins(s, t) <=> IsPrefix(s, t)
<1> DEFINE n == Len(s)
           a == SubSeq(s, 1, n)
           b == SubSeq(t, 1, n)
<1>1. /\ n \in Nat /\ Len(t) \in Nat
      /\ HasLen(s, n) /\ HasLen(t, Len(t))
  BY SeqIsSequence DEF Keys
<1> SUFFICES ASSUME n <= Len(t) PROVE Begins(s, t) <=> a = b BY DEF Begins, IsPrefix
<1>2. IsSlice(a, s, 1, n) /\ IsSlice(b, t, 1, n)
  <2>1. 1 \in 1 .. n + 1 /\ n \in 1 - 1 .. n /\ 1 \in 1 .. Len(t) + 1 /\ n \in 1 - 1 .. Len(t) BY <1>1
  <2> QED BY <1>1, <2>1, SubSeqIsSlice
<1> HIDE DEF a, b
<1>3. /\ HasLen(a, n) /\ \A i \in 1 .. n : a[i] = s[i]
      /\ HasLen(b, n) /\ \A i \in 1 .. n : b[i] = t[i]
  <2>1. n - 1 + 1 = n /\ \A i \in 1 .. n : 1 + i - 1 = i BY <1>1
  <2> QED BY <1>2, <2>1 DEF IsSlice
<1>4. a = b <=> \A i \in 1 .. n : s[i] = t[i] BY <1>3, SequenceSame
<1> QED BY <1>4 DEF Begins

\* The clashes of a listing, as the model of the writer states them.
Clashes(list) ==
  \/ \E f \in DOMAIN list : list[f].path = <<>>
  \/ \E f, g \in DOMAIN list : f # g /\ IsPrefix(Folded(list[f].path), Folded(list[g].path))

\* What clashes in a whole listing.
LEMMA ClashesArePathClashes ==
  ASSUME NEW list \in Seq(FileEntry)
  PROVE  Clashes(list) <=> PathClash(list, Len(list))
<1>1. DOMAIN list = 1 .. Len(list) /\ \A f \in 1 .. Len(list) : list[f].path \in Seq(FileNames)
  <2>1. DOMAIN list = 1 .. Len(list) /\ \A f \in 1 .. Len(list) : list[f] \in FileEntry OBVIOUS
  <2> QED BY <2>1 DEF FileEntry, FileNames
<1>2. \A f \in 1 .. Len(list) : Folded(list[f].path) \in Keys BY <1>1, FoldedKey
<1>3. \A f, g \in 1 .. Len(list) :
    Begins(Folded(list[f].path), Folded(list[g].path))
    <=> IsPrefix(Folded(list[f].path), Folded(list[g].path))
  BY <1>2, BeginsIsPrefix
<1> QED BY <1>1, <1>3 DEF Clashes, PathClash

\* What build() knows of the path tree.
PathTreeOf(list, key, node) ==
  /\ IsPathTree(PathTree(list).arena, key)
  /\ FilesHeld(PathTree(list).arena, key, list, node, Len(list))
  /\ PathTree(list).running_offset = FileStart(list, Len(list) + 1)
  /\ \A f \in 1 .. Len(list) : list[f].path # <<>>

\* build() refuses a listing exactly if paths clash, and else has a tree of all its files.
LEMMA PathTreeSound ==
  ASSUME NEW list \in Seq(FileEntry)
  PROVE  /\ PathTree(list).ok \in BOOLEAN
         /\ PathTree(list).running_offset \in Nat
         /\ ~PathTree(list).ok <=> Clashes(list)
         /\ PathTree(list).ok => \E key, node : PathTreeOf(list, key, node)
<1>1. PathTree(list) \in Climbs /\ TreeHolds(PathTree(list), list, Len(list)) BY PathTreeHolds
<1>2. PathTree(list).ok \in BOOLEAN /\ PathTree(list).running_offset \in Nat BY <1>1 DEF Climbs
<1>3. ASSUME PathTree(list).ok
      PROVE  ~PathClash(list, Len(list)) /\ \E key, node : PathTreeOf(list, key, node)
  <2>1. PICK key, node : Inserted(PathTree(list), key, node, list, Len(list)) BY <1>1, <1>3 DEF TreeHolds
  <2>2. Len(list) \in 0 .. Len(list) OBVIOUS
  <2> QED BY <2>1, <2>2, NoClash DEF PathTreeOf, Inserted
<1>4. ~PathTree(list).ok => PathClash(list, Len(list)) BY <1>1 DEF TreeHolds
<1> QED BY <1>2, <1>3, <1>4, ClashesArePathClashes

-----------------------------------------------------------------------------
(* The name table: every name of the tree is in it, and found where it says  *)

\* Every name of a tree is interned.
LEMMA InternedNames ==
  ASSUME NEW arena, NEW key, IsPathTree(arena, key)
  PROVE  /\ Interned(arena) \in Seq(FileNames)
         /\ \A n \in 2 .. Len(arena) : Contains(Interned(arena), arena[n].name)
<1> DEFINE N == Len(arena)
           rest == Tail(arena)
           S == Seq(FileNames)
<1>1. arena \in Seq(Nodes) /\ N \in Nat \ {0} /\ \A n \in 2 .. N : arena[n].name \in FileNames
  BY DEF IsPathTree, IsArena
<1>2. HasLen(rest, N - 1) /\ \A i \in 1 .. N - 1 : rest[i] = arena[i + 1]
  <2>1. arena # <<>> BY <1>1
  <2>2. rest \in Seq(Nodes) /\ Len(rest) = N - 1 BY <1>1, <2>1
  <2>3. \A i \in 1 .. N - 1 : rest[i] = arena[i + 1] BY <1>1, <2>1
  <2> HIDE DEF rest, N
  <2> QED BY <2>2, <2>3, SeqIsSequence
<1> HIDE DEF rest, N
<1>3. \A i \in 1 .. N - 1 : rest[i].name \in FileNames /\ rest[i].name = arena[i + 1].name
  <2>1. \A i \in 1 .. N - 1 : i + 1 \in 2 .. N BY <1>1
  <2> QED BY <1>1, <1>2, <2>1
<1>4. \A i \in 1 .. N - 1 : \A x \in S : Intern(x, rest[i]) \in S BY <1>3 DEF Intern
<1>5. PICK run : /\ IsInternRun(run, <<>>, rest, N - 1, S)
                 /\ FoldLeft(Intern, <<>>, rest) = run[N - 1]
  <2>1. <<>> \in S OBVIOUS
  <2>2. N - 1 \in Nat BY <1>1
  <2>3. HasLen(rest, N - 1) BY <1>2
  <2> HIDE DEF S
  <2> QED BY ONLY <1>4, <2>1, <2>2, <2>3, InternRun
<1>6. /\ \A k \in 0 .. N - 1 : run[k] \in Seq(FileNames)
      /\ \A k \in 1 .. N - 1 : run[k] = Intern(run[k - 1], rest[k])
  BY <1>5 DEF IsInternRun
<1> DEFINE D == {k \in Nat : k <= N - 1 => \A i \in 1 .. k : Contains(run[k], rest[i].name)}
<1>7. 0 \in D OBVIOUS
<1>8. ASSUME NEW k \in Nat, k \in D PROVE k + 1 \in D
  <2> SUFFICES ASSUME k + 1 <= N - 1, NEW i \in 1 .. k + 1
      PROVE  Contains(run[k + 1], rest[i].name)
    OBVIOUS
  <2>1. /\ k + 1 \in 1 .. N - 1 /\ (k + 1) - 1 = k /\ k \in 0 .. N - 1
        /\ \A a \in 1 .. k : Contains(run[k], rest[a].name)
    BY <1>1, <1>8
  <2> DEFINE s == run[k]
             e == rest[k + 1].name
  <2>2. s \in Seq(FileNames) /\ e \in FileNames
        /\ run[k + 1] = IF Contains(s, e) THEN s ELSE Append(s, e)
    BY <1>3, <1>6, <2>1 DEF Intern
  <2>3. i \in 1 .. k => Contains(s, rest[i].name) BY <2>1
  <2> HIDE DEF s, e
  <2>4. CASE Contains(s, e)
    <3>1. i = k + 1 => rest[i].name = e BY DEF e
    <3> QED BY <2>2, <2>3, <2>4, <3>1
  <2>5. CASE ~Contains(s, e)
    <3>1. /\ run[k + 1] = Append(s, e) /\ Len(Append(s, e)) = Len(s) + 1 /\ Len(s) \in Nat
          /\ Append(s, e)[Len(s) + 1] = e
          /\ \A j \in 1 .. Len(s) : Append(s, e)[j] = s[j]
      BY <2>2, <2>5
    <3>2. i = k + 1 => rest[i].name = e BY DEF e
    <3>3. Len(s) + 1 \in 1 .. Len(s) + 1 /\ \A j \in 1 .. Len(s) : j \in 1 .. Len(s) + 1 BY <3>1
    <3> QED BY <2>3, <3>1, <3>2, <3>3 DEF Contains
  <2> QED BY <2>4, <2>5
<1>9. N - 1 \in D
  <2> HIDE DEF D
  <2> QED BY <1>1, <1>7, <1>8, NatInduct
<1>10. Interned(arena) = run[N - 1] BY <1>5 DEF Interned, rest
<1>11. \A n \in 2 .. N : Contains(run[N - 1], arena[n].name)
  <2> SUFFICES ASSUME NEW n \in 2 .. N PROVE Contains(run[N - 1], arena[n].name) OBVIOUS
  <2>1. n - 1 \in 1 .. N - 1 /\ (n - 1) + 1 = n /\ N - 1 \in Nat BY <1>1
  <2>2. \A i \in 1 .. N - 1 : Contains(run[N - 1], rest[i].name) BY <1>9, <2>1
  <2>3. rest[n - 1].name = arena[n].name
    <3>1. rest[n - 1].name = arena[(n - 1) + 1].name BY <1>3, <2>1
    <3> QED BY <2>1, <3>1
  <2> QED BY <2>1, <2>2, <2>3
<1>12. run[N - 1] \in Seq(FileNames) BY <1>1, <1>6
<1> QED BY <1>10, <1>11, <1>12 DEF N

\* A name's bytes in the table: a header of one byte or two, and the name.
IsEntryOf(entry, name) ==
  LET len == EncodedLen[name]
      header == NameHeader(len)
      h == IF len >= LongName THEN 2 ELSE 1
  IN /\ HasLen(entry, h + len)
     /\ \A x \in 1 .. h : entry[x] = <<"", header[x]>>
     /\ \A x \in 1 .. len : entry[h + x] = <<Encoded[name], x>>

\* The entry of a name is a header that says how long it is, and its bytes.
LEMMA NameEntryIs ==
  ASSUME NEW name \in FileNames
  PROVE  IsEntryOf(NameEntry(name), name)
<1> DEFINE len == EncodedLen[name]
           header == NameHeader(len)
           h == IF len >= LongName THEN 2 ELSE 1
           s == [i \in DOMAIN header |-> <<"", header[i]>>]
           t == NameBytes(name)
           e == NameEntry(name)
<1>1. len \in Nat \ {0} /\ LongName \in Nat \ {0} BY ZarLayoutAssumption DEF FileNames
<1>2. h \in Nat /\ DOMAIN header = 1 .. h
  <2> DEFINE a == (len % LongName) + LongName
             b == len \div LongName
  <2>1. CASE len >= LongName
    <3>1. header = <<a, b>> BY <2>1 DEF NameHeader
    <3> HIDE DEF a, b, header
    <3>2. DOMAIN <<a, b>> = 1 .. 2 OBVIOUS
    <3> QED BY <2>1, <3>1, <3>2
  <2>2. CASE ~(len >= LongName)
    <3>1. header = <<len>> BY <2>2 DEF NameHeader
    <3> HIDE DEF header, len
    <3>2. DOMAIN <<len>> = 1 .. 1 OBVIOUS
    <3> QED BY <2>2, <3>1, <3>2
  <2> QED BY <2>1, <2>2
<1>3. t = [i \in 1 .. len |-> <<Encoded[name], i>>] /\ e = s \o t BY DEF NameBytes, NameEntry
<1> HIDE DEF len, header, h, t, e
<1>4. HasLen(s, h) /\ \A x \in 1 .. h : s[x] = <<"", header[x]>> BY <1>2 DEF HasLen
<1>5. HasLen(t, len) /\ \A x \in 1 .. len : t[x] = <<Encoded[name], x>> BY <1>1, <1>3 DEF HasLen
<1> HIDE DEF s
<1>6. IsConcat(e, s, h, t, len) BY <1>3, <1>4, <1>5, SequenceConcat
<1>7. /\ HasLen(e, h + len)
      /\ \A x \in 1 .. h : e[x] = s[x]
      /\ \A x \in 1 .. len : e[h + x] = t[x]
  <2>1. \A x \in 1 .. h : x \in 1 .. h + len /\ x <= h BY <1>1, <1>2
  <2>2. \A x \in 1 .. len : h + x \in 1 .. h + len /\ ~(h + x <= h) /\ (h + x) - h = x BY <1>1, <1>2
  <2> QED BY <1>6, <2>1, <2>2 DEF IsConcat
<1> QED BY <1>4, <1>5, <1>7 DEF IsEntryOf, e, len, header, h

\* The table of the first names, name by name.
IsTableRun(run, names) ==
  /\ \A k \in 0 .. Len(names) :
       /\ NameTable(SubSeq(names, 1, k)) = run[k]
       /\ HasLen(run[k], Len(run[k]))
  /\ NameTable(names) = run[Len(names)]
  /\ \A k \in 1 .. Len(names) :
       \E entry : /\ IsEntryOf(entry, names[k])
                  /\ IsConcat(run[k], run[k - 1], Len(run[k - 1]), entry, Len(entry))

\* The name table is its entries, one after the other.
LEMMA NameTableRun ==
  ASSUME NEW names \in Seq(FileNames)
  PROVE  \E run : IsTableRun(run, names)
<1> DEFINE m == Len(names)
           g == [k \in 1 .. m |-> NameEntry(names[k])]
<1>1. m \in Nat /\ HasLen(names, m) /\ DOMAIN names = 1 .. m
      /\ \A k \in 1 .. m : names[k] \in FileNames
  BY SeqIsSequence
<1>2. HasLen(g, m) /\ \A k \in 1 .. m : g[k] = NameEntry(names[k]) BY <1>1 DEF HasLen
<1>3. NameTable(names) = FoldLeft(\o, <<>>, g) BY <1>1 DEF NameTable
<1> HIDE DEF m, g
<1>4. PICK run : IsConcatRun(run, g, m) /\ FoldLeft(\o, <<>>, g) = run[m] BY <1>1, <1>2, ConcatRun
<1>5. \A k \in 1 .. m : IsEntryOf(g[k], names[k]) /\ HasLen(g[k], Len(g[k]))
  <2>1. \A k \in 1 .. m : IsEntryOf(g[k], names[k]) BY <1>1, <1>2, NameEntryIs
  <2>2. ASSUME NEW k \in 1 .. m PROVE HasLen(g[k], Len(g[k]))
    <3>1. PICK n : HasLen(g[k], n) BY <2>1 DEF IsEntryOf
    <3>2. Len(g[k]) = n BY <3>1, SequenceLength
    <3> QED BY <3>1, <3>2
  <2> QED BY <2>1, <2>2
<1> DEFINE D == {k \in Nat : k <= m => HasLen(run[k], Len(run[k]))}
<1>6. 0 \in D
  <2>1. HasLen(<<>>, Len(<<>>))
    <3>1. <<>> \in Seq({}) OBVIOUS
    <3> QED BY <3>1, SeqIsSequence
  <2> QED BY <1>4, <2>1 DEF IsConcatRun
<1>7. ASSUME NEW k \in Nat, k \in D PROVE k + 1 \in D
  <2> SUFFICES ASSUME k + 1 <= m PROVE HasLen(run[k + 1], Len(run[k + 1])) OBVIOUS
  <2>1. k + 1 \in 1 .. m /\ (k + 1) - 1 = k /\ HasLen(run[k], Len(run[k])) BY <1>1, <1>7
  <2>2. run[k + 1] = run[k] \o g[k + 1] BY <1>4, <2>1 DEF IsConcatRun
  <2>3. HasLen(run[k + 1], Len(run[k]) + Len(g[k + 1]))
    <3> DEFINE a == run[k]
               b == g[k + 1]
    <3>1. HasLen(a, Len(a)) /\ HasLen(b, Len(b)) BY <1>5, <2>1
    <3> HIDE DEF a, b
    <3>2. IsConcat(a \o b, a, Len(a), b, Len(b)) BY <3>1, SequenceConcat
    <3> QED BY <2>2, <3>2 DEF IsConcat, a, b
  <2> QED BY <2>3, SequenceLength
<1>8. \A k \in Nat : k \in D
  <2> HIDE DEF D
  <2> QED BY <1>6, <1>7, NatInduct
<1>9. \A k \in 0 .. m : HasLen(run[k], Len(run[k])) BY <1>1, <1>8
<1>10. ASSUME NEW k \in 0 .. m
    PROVE  NameTable(SubSeq(names, 1, k)) = run[k]
  <2> DEFINE part == SubSeq(names, 1, k)
             h == [i \in 1 .. k |-> NameEntry(part[i])]
  <2>1. k \in Nat /\ 1 \in 1 .. m + 1 /\ k \in 1 - 1 .. m /\ k - 1 + 1 = k
        /\ \A i \in 1 .. k : 1 + i - 1 = i /\ i \in 1 .. m
    BY <1>1
  <2>2. HasLen(part, k) /\ \A i \in 1 .. k : part[i] = names[i]
    <3>1. IsSlice(part, names, 1, k) BY <1>1, <2>1, SubSeqIsSlice
    <3> HIDE DEF part
    <3> QED BY <2>1, <3>1 DEF IsSlice
  <2> HIDE DEF part
  <2>3. DOMAIN part = 1 .. k BY <2>2, SequenceLength
  <2>4. NameTable(part) = FoldLeft(\o, <<>>, h) BY <2>3 DEF NameTable
  <2>5. HasLen(h, k) /\ \A i \in 1 .. k : h[i] = g[i] BY <1>2, <2>1, <2>2 DEF HasLen
  <2> HIDE DEF h
  <2>6. PICK other : IsConcatRun(other, h, k) /\ FoldLeft(\o, <<>>, h) = other[k] BY <2>1, <2>5, ConcatRun
  <2> DEFINE E == {j \in Nat : j <= k => other[j] = run[j]}
  <2>7. 0 \in E BY <1>4, <2>6 DEF IsConcatRun
  <2>8. ASSUME NEW j \in Nat, j \in E PROVE j + 1 \in E
    <3> SUFFICES ASSUME j + 1 <= k PROVE other[j + 1] = run[j + 1] OBVIOUS
    <3>1. j + 1 \in 1 .. k /\ j + 1 \in 1 .. m /\ (j + 1) - 1 = j /\ other[j] = run[j] BY <2>1, <2>8
    <3> QED BY <1>4, <2>5, <2>6, <3>1 DEF IsConcatRun
  <2>9. k \in E
    <3> HIDE DEF E
    <3> QED BY <2>1, <2>7, <2>8, NatInduct
  <2>10. other[k] = run[k] BY <2>1, <2>9
  <2> QED BY <2>4, <2>6, <2>10 DEF part
<1>11. ASSUME NEW k \in 1 .. m
    PROVE  /\ IsEntryOf(g[k], names[k])
           /\ IsConcat(run[k], run[k - 1], Len(run[k - 1]), g[k], Len(g[k]))
  <2>1. k - 1 \in 0 .. m BY <1>1
  <2>2. run[k] = run[k - 1] \o g[k] BY <1>4 DEF IsConcatRun
  <2> QED BY <1>5, <1>9, <2>1, <2>2, SequenceConcat
<1>12. IsTableRun(run, names) BY <1>3, <1>4, <1>9, <1>10, <1>11 DEF IsTableRun, m
<1> QED BY <1>12

\* A later table begins with an earlier one.
LEMMA TableGrows ==
  ASSUME NEW names \in Seq(FileNames), NEW run, IsTableRun(run, names),
         NEW i \in 0 .. Len(names)
  PROVE  /\ Len(run[i]) \in Nat /\ Len(run[Len(names)]) \in Nat
         /\ Len(run[i]) <= Len(run[Len(names)])
         /\ \A x \in 1 .. Len(run[i]) : run[Len(names)][x] = run[i][x]
<1> DEFINE m == Len(names)
           Started(k) == /\ Len(run[i]) <= Len(run[k])
                         /\ \A x \in 1 .. Len(run[i]) : run[k][x] = run[i][x]
           D == {d \in Nat : i + d <= m => Started(i + d)}
<1>1. m \in Nat /\ i \in Nat /\ i <= m OBVIOUS
<1>2. /\ \A k \in 0 .. m : Len(run[k]) \in Nat
      /\ \A k \in 1 .. m : \E entry :
           IsConcat(run[k], run[k - 1], Len(run[k - 1]), entry, Len(entry)) /\ Len(entry) \in Nat
  <2>1. /\ \A k \in 0 .. m : HasLen(run[k], Len(run[k]))
        /\ \A k \in 1 .. m : \E entry :
             /\ IsEntryOf(entry, names[k])
             /\ IsConcat(run[k], run[k - 1], Len(run[k - 1]), entry, Len(entry))
    BY DEF IsTableRun
  <2>2. ASSUME NEW k \in 1 .. m
        PROVE  \E entry : /\ IsConcat(run[k], run[k - 1], Len(run[k - 1]), entry, Len(entry))
                          /\ Len(entry) \in Nat
    <3>1. PICK entry : /\ IsEntryOf(entry, names[k])
                       /\ IsConcat(run[k], run[k - 1], Len(run[k - 1]), entry, Len(entry))
      BY <2>1
    <3>2. PICK n : HasLen(entry, n) BY <3>1 DEF IsEntryOf
    <3>3. Len(entry) \in Nat BY <3>2, SequenceLength DEF HasLen
    <3> QED BY <3>1, <3>3
  <2> QED BY <2>1, <2>2 DEF HasLen
<1> HIDE DEF m
<1>3. 0 \in D
  <2>1. i + 0 = i /\ Len(run[i]) \in Nat BY <1>1, <1>2
  <2> QED BY <2>1
<1>4. ASSUME NEW d \in Nat, d \in D PROVE d + 1 \in D
  <2> SUFFICES ASSUME i + (d + 1) <= m PROVE Started(i + (d + 1)) OBVIOUS
  <2> DEFINE k == i + d
  <2>1. k + 1 \in 1 .. m /\ k \in 0 .. m /\ (k + 1) - 1 = k /\ i + (d + 1) = k + 1 /\ Started(k)
    BY <1>1, <1>4
  <2> HIDE DEF k
  <2>2. PICK entry : IsConcat(run[k + 1], run[k], Len(run[k]), entry, Len(entry))
      /\ Len(entry) \in Nat
    BY <1>2, <2>1
  <2> DEFINE u == run[k + 1]
             s == run[k]
             l == Len(s)
             r == run[i]
  <2>3. l \in Nat /\ Len(r) \in Nat BY <1>1, <1>2, <2>1
  <2>4. Len(u) = l + Len(entry) /\ \A x \in 1 .. l : x \in 1 .. l + Len(entry) => u[x] = s[x]
    <3>1. IsConcat(u, s, l, entry, Len(entry)) BY <2>2
    <3> HIDE DEF u, s, l
    <3>2. HasLen(u, l + Len(entry))
          /\ \A x \in 1 .. l + Len(entry) : u[x] = IF x <= l THEN s[x] ELSE entry[x - l]
      BY <3>1 DEF IsConcat
    <3>3. Len(u) = l + Len(entry) BY <3>2, SequenceLength
    <3>4. l \in Nat BY <2>3
    <3>5. \A x \in 1 .. l : x \in 1 .. l + Len(entry) => u[x] = s[x] BY <3>2, <3>4
    <3> QED BY <3>3, <3>5
  <2>5. Len(r) <= l /\ \A x \in 1 .. Len(r) : s[x] = r[x] BY <2>1
  <2> HIDE DEF u, s, l, r
  <2>6. Len(r) <= Len(u) /\ \A x \in 1 .. Len(r) : u[x] = r[x] BY <2>2, <2>3, <2>4, <2>5
  <2> QED BY <2>1, <2>6 DEF u, r
<1> HIDE DEF Started
<1>5. \A d \in Nat : d \in D
  <2> HIDE DEF D
  <2> QED BY <1>3, <1>4, NatInduct
<1>6. m - i \in Nat /\ i + (m - i) = m BY <1>1
<1>7. Started(m)
  <2>1. i + (m - i) <= m => Started(i + (m - i)) BY <1>5, <1>6
  <2> QED BY <1>1, <1>6, <2>1
<1>8. Len(run[i]) \in Nat /\ Len(run[m]) \in Nat BY <1>1, <1>2
<1> QED BY <1>7, <1>8 DEF Started, m

\* Where a name's entry is in the table, and that it is all there.
EntryThere(table, off, name) ==
  LET len == EncodedLen[name]
      header == NameHeader(len)
      h == IF len >= LongName THEN 2 ELSE 1
  IN /\ off \in Nat /\ Len(table) \in Nat /\ off + h + len <= Len(table)
     /\ \A x \in 1 .. h : table[off + x] = <<"", header[x]>>
     /\ \A x \in 1 .. len : table[off + h + x] = <<Encoded[name], x>>

\* The entry of a name lies at the offset given for it.
LEMMA EntryFound ==
  ASSUME NEW names \in Seq(FileNames), NEW name \in FileNames, Contains(names, name)
  PROVE  /\ HasLen(NameTable(names), Len(NameTable(names)))
         /\ EntryThere(NameTable(names), NameOffset(names, name), name)
<1> DEFINE m == Len(names)
           I == {i \in 1 .. m : names[i] = name}
           at == SelectInSeq(names, LAMBDA n : n = name)
<1>1. m \in Nat OBVIOUS
<1>2. at = IF I # {} THEN Min(I) ELSE 0 BY DEF SelectInSeq
<1>3. I # {} /\ I \in SUBSET Int /\ \A x \in I : 0 <= x BY <1>1 DEF Contains
<1>4. at \in I
  <2> HIDE DEF I, at
  <2> QED BY <1>2, <1>3, IntMin
<1>5. at \in 1 .. m /\ names[at] = name BY <1>4
<1>6. NameOffset(names, name) = Len(NameTable(SubSeq(names, 1, at - 1))) BY DEF NameOffset
<1> HIDE DEF at, I
<1>7. PICK run : IsTableRun(run, names) BY NameTableRun
<1> DEFINE table == NameTable(names)
           s == run[at - 1]
           u == run[at]
           off == Len(s)
<1>8. at - 1 \in 0 .. m /\ at \in 0 .. m BY <1>1, <1>5
<1>9. /\ NameOffset(names, name) = off /\ table = run[m]
      /\ HasLen(table, Len(table))
      /\ off \in Nat
  <2>1. m \in 0 .. m BY <1>1
  <2> QED BY <1>6, <1>7, <1>8, <2>1 DEF IsTableRun, HasLen
<1>10. PICK entry : IsEntryOf(entry, name) /\ IsConcat(u, s, off, entry, Len(entry))
  BY <1>5, <1>7 DEF IsTableRun
<1>11. /\ Len(u) \in Nat /\ Len(table) \in Nat /\ Len(u) <= Len(table)
       /\ \A x \in 1 .. Len(u) : table[x] = u[x]
  BY <1>7, <1>8, <1>9, TableGrows
<1> DEFINE len == EncodedLen[name]
           header == NameHeader(len)
           h == IF len >= LongName THEN 2 ELSE 1
<1>12. /\ HasLen(entry, h + len)
       /\ \A x \in 1 .. h : entry[x] = <<"", header[x]>>
       /\ \A x \in 1 .. len : entry[h + x] = <<Encoded[name], x>>
  BY <1>10 DEF IsEntryOf
<1>13. len \in Nat \ {0} /\ h \in {1, 2} BY ZarLayoutAssumption DEF FileNames
<1> HIDE DEF len, header, h, table, s, u, off, m
<1>14. Len(entry) = h + len BY <1>12, SequenceLength
<1>15. Len(u) = off + (h + len) /\ \A x \in 1 .. h + len : u[off + x] = entry[x]
  <2>1. HasLen(u, off + (h + len))
        /\ \A i \in 1 .. off + (h + len) : u[i] = IF i <= off THEN s[i] ELSE entry[i - off]
    BY <1>10, <1>14 DEF IsConcat
  <2>2. \A x \in 1 .. h + len : /\ off + x \in 1 .. off + (h + len) /\ ~(off + x <= off)
                                /\ (off + x) - off = x
    BY <1>9, <1>13
  <2> QED BY <2>1, <2>2, SequenceLength
<1>16. \A x \in 1 .. h + len : table[off + x] = entry[x]
  <2>1. \A x \in 1 .. h + len : off + x \in 1 .. Len(u) BY <1>9, <1>13, <1>15
  <2> QED BY <1>11, <1>15, <2>1
<1>17. /\ \A x \in 1 .. h : table[off + x] = <<"", header[x]>>
       /\ \A x \in 1 .. len : table[off + h + x] = <<Encoded[name], x>>
  <2>1. \A x \in 1 .. h : x \in 1 .. h + len BY <1>13
  <2>2. \A x \in 1 .. len : h + x \in 1 .. h + len /\ off + (h + x) = off + h + x BY <1>9, <1>13
  <2>3. \A x \in 1 .. h : table[off + x] = <<"", header[x]>> BY <1>12, <1>16, <2>1
  <2>4. \A x \in 1 .. len : table[off + (h + x)] = <<Encoded[name], x>> BY <1>12, <1>16, <2>2
  <2> QED BY <2>2, <2>3, <2>4
<1>18. off + h + len <= Len(table) BY <1>9, <1>11, <1>13, <1>15
<1>19. EntryThere(table, off, name) BY <1>9, <1>11, <1>17, <1>18 DEF EntryThere, len, h, header
<1> QED BY <1>9, <1>19 DEF table, off

\* The parts of a pair.
LEMMA PairParts ==
  ASSUME NEW p, NEW a, NEW b, p = <<a, b>>
  PROVE  p[1] = a /\ p[2] = b
OBVIOUS

\* A name reads back as its encoding.
LEMMA NameReadsBack ==
  ASSUME NEW names \in Seq(FileNames), NEW name \in FileNames, Contains(names, name)
  PROVE  ReadName(NameTable(names), NameOffset(names, name)) = Encoded[name]
<1> DEFINE table == NameTable(names)
           off == NameOffset(names, name)
           T == Len(table)
           len == EncodedLen[name]
           header == NameHeader(len)
           h == IF len >= LongName THEN 2 ELSE 1
<1>1. HasLen(table, T) /\ EntryThere(table, off, name) BY EntryFound
<1>2. len \in Nat \ {0} /\ LongName \in Nat \ {0} /\ Encoded[name] # NoName
  BY ZarLayoutAssumption DEF FileNames
<1>3. header = IF len >= LongName THEN <<(len % LongName) + LongName, len \div LongName>>
    ELSE <<len>>
  BY DEF NameHeader
<1> HIDE DEF table, off, header, len
<1>4. /\ off \in Nat /\ T \in Nat /\ off + h + len <= T
      /\ \A x \in 1 .. h : table[off + x] = <<"", header[x]>>
      /\ \A x \in 1 .. len : table[off + h + x] = <<Encoded[name], x>>
  BY <1>1 DEF EntryThere, len, header
<1> HIDE DEF T, h
<1>20. h \in {1, 2} /\ off \in Nat /\ T \in Nat /\ off + h + len <= T /\ off + h \in Nat
  <2>1. h \in {1, 2} BY DEF h
  <2>2. off \in Nat /\ T \in Nat /\ off + h + len <= T BY <1>4
  <2> QED BY <2>1, <2>2
<1> DEFINE b0 == table[off + 1][2]
           b1 == table[off + 2][2]
           long == b0 >= LongName
           l == IF long THEN b0 - LongName + LongName * b1 ELSE b0
           start == IF long THEN off + 2 ELSE off + 1
           bytes == SubSeq(table, start + 1, start + l)
\* The header gives the length, and how long it is itself.
<1>5. /\ l = len /\ start = off + h
      /\ table[off + 1][1] = ""
      /\ long => off + 1 < T /\ table[off + 2][1] = ""
  <2>1. CASE len >= LongName
    <3> DEFINE a == (len % LongName) + LongName
               b == len \div LongName
    <3>1. h = 2 /\ header = <<a, b>> BY <1>3, <2>1 DEF h
    <3>2. a - LongName \in 0 .. LongName - 1 /\ a \in Nat /\ b \in Nat /\ a >= LongName
          /\ len = b * LongName + (a - LongName)
      <4> DEFINE c == len % LongName
      <4>1. c \in 0 .. LongName - 1 /\ b \in Nat /\ len = b * LongName + c BY <1>2, DivMod
      <4>2. a = c + LongName OBVIOUS
      <4> HIDE DEF a, b, c
      <4>3. a - LongName = c /\ a \in Nat /\ a >= LongName BY <1>2, <4>1, <4>2
      <4> QED BY <4>1, <4>3
    <3> HIDE DEF a, b
    <3>3. header[1] = a /\ header[2] = b BY <3>1, PairParts
    <3>4. table[off + 1] = <<"", a>> /\ table[off + 2] = <<"", b>>
      <4>1. \A x \in 1 .. 2 : table[off + x] = <<"", header[x]>> BY <1>4, <3>1
      <4>2. 1 \in 1 .. 2 /\ 2 \in 1 .. 2 OBVIOUS
      <4> QED BY <4>1, <4>2, <3>3
    <3>5. b0 = a /\ b1 = b /\ table[off + 1][1] = "" /\ table[off + 2][1] = ""
      <4> DEFINE p == table[off + 1]
                 q == table[off + 2]
      <4>1. p = <<"", a>> /\ q = <<"", b>> BY <3>4
      <4> HIDE DEF p, q
      <4>2. p[1] = "" /\ p[2] = a /\ q[1] = "" /\ q[2] = b BY <4>1, PairParts
      <4> QED BY <4>2 DEF p, q
    <3> HIDE DEF b0, b1
    <3>6. long BY <3>2, <3>5
    <3>7. l = a - LongName + LongName * b /\ start = off + 2 BY <3>5, <3>6
    <3>8. l = len
      <4> DEFINE m == LongName * b
                 n == b * LongName
      <4>1. m = n /\ m \in Nat BY <1>2, <3>2
      <4>2. len = n + (a - LongName) /\ l = a - LongName + m BY <3>2, <3>7
      <4> HIDE DEF m, n, l
      <4> QED BY <1>2, <3>2, <4>1, <4>2
    <3>9. off + 1 < T BY <1>2, <1>20, <3>1
    <3> QED BY <3>1, <3>5, <3>7, <3>8, <3>9
  <2>2. CASE ~(len >= LongName)
    <3>1. h = 1 /\ header = <<len>> BY <1>3, <2>2 DEF h
    <3>2. table[off + 1] = <<"", len>>
      <4>1. \A x \in 1 .. 1 : table[off + x] = <<"", header[x]>> BY <1>4, <3>1
      <4>2. header[1] = len /\ 1 \in 1 .. 1 BY <3>1
      <4> QED BY <4>1, <4>2
    <3>3. b0 = len /\ table[off + 1][1] = ""
      <4> DEFINE p == table[off + 1]
      <4>1. p = <<"", len>> BY <3>2
      <4> HIDE DEF p
      <4>2. p[1] = "" /\ p[2] = len BY <4>1, PairParts
      <4> QED BY <4>2 DEF p
    <3> HIDE DEF b0
    <3> QED BY <2>2, <3>1, <3>3
  <2> QED BY <2>1, <2>2
<1>7. bytes = [i \in 1 .. len |-> <<Encoded[name], i>>]
  <2> DEFINE at == off + h
             r == SubSeq(table, at + 1, at + len)
  <2>1. bytes = r BY <1>5
  <2> HIDE DEF bytes
  <2>2. at \in Nat /\ at + len <= T BY <1>20
  <2>3. \A i \in 1 .. len : table[at + i] = <<Encoded[name], i>> BY <1>4
  <2> HIDE DEF at
  <2>4. at + 1 \in 1 .. T + 1 /\ at + len \in (at + 1) - 1 .. T
        /\ (at + len) - (at + 1) + 1 = len
        /\ \A i \in 1 .. len : (at + 1) + i - 1 = at + i
    BY <1>2, <1>20, <2>2
  <2>5. IsSlice(r, table, at + 1, at + len) BY <1>1, <2>4, SubSeqIsSlice
  <2> HIDE DEF r
  <2>6. HasLen(r, len) /\ \A i \in 1 .. len : r[i] = table[at + i] BY <2>4, <2>5 DEF IsSlice
  <2>7. \A i \in 1 .. len : r[i] = <<Encoded[name], i>> BY <2>3, <2>6
  <2>8. r = [i \in 1 .. len |-> r[i]] BY <2>6 DEF HasLen
  <2> QED BY <2>1, <2>7, <2>8
<1>8. /\ off \in 0 .. T - 1 /\ start + l <= T /\ l > 0
      /\ Encoded[name] \in {Encoded[n] : n \in DOMAIN Encoded}
  <2>1. name \in DOMAIN Encoded BY ZarLayoutAssumption DEF FileNames
  <2> HIDE DEF l, start
  <2>2. l = len /\ start = off + h BY <1>5
  <2>3. off \in 0 .. T - 1 /\ start + l <= T /\ l > 0 BY <1>2, <1>20, <2>2
  <2> QED BY <2>1, <2>3
<1>9. bytes[1][1] = Encoded[name]
  <2>1. 1 \in 1 .. len BY <1>2
  <2> HIDE DEF bytes
  <2> DEFINE p == bytes[1]
  <2>2. p = <<Encoded[name], 1>> BY <1>7, <2>1
  <2> HIDE DEF p
  <2>3. p[1] = Encoded[name] BY <2>2, PairParts
  <2> QED BY <2>3 DEF p
<1>10. bytes = [i \in 1 .. l |-> <<Encoded[name], i>>] BY <1>5, <1>7
<1>11. ReadName(table, off)
    = IF /\ off \in 0 .. T - 1 /\ table[off + 1][1] = ""
         /\ long => off + 1 < T /\ table[off + 2][1] = ""
         /\ start + l <= T /\ l > 0
         /\ \E n \in {Encoded[a] : a \in DOMAIN Encoded} : bytes = [i \in 1 .. l |-> <<n, i>>]
      THEN bytes[1][1] ELSE NoName
  BY DEF ReadName, T
<1> HIDE DEF bytes, start, l, long, b0, b1
<1>12. ReadName(table, off) = Encoded[name] BY <1>5, <1>8, <1>9, <1>10, <1>11
<1> QED BY <1>12 DEF table, off

-----------------------------------------------------------------------------
(* The order of the children, and the breadth-first order of the nodes       *)

\* The sorted children are the children, each at one place.
IsSorting(sorted, children) ==
  /\ HasLen(sorted, Len(children))
  /\ \A i \in 1 .. Len(children) : \E j \in 1 .. Len(children) : sorted[i] = children[j]
  /\ \A i, j \in 1 .. Len(children) : sorted[i] = sorted[j] => i = j
  /\ \A j \in 1 .. Len(children) : \E i \in 1 .. Len(children) : sorted[i] = children[j]

\* The sorted children are the children, each once.
LEMMA ChildrenSorted ==
  ASSUME NEW arena, NEW key, IsPathTree(arena, key), NEW n \in 1 .. Len(arena)
  PROVE  IsSorting(SortedChildren(arena, n), arena[n].children)
<1> DEFINE N == Len(arena)
           children == arena[n].children
           m == Len(children)
           C == Range(children)
           r == [c \in C |-> RankOf(arena, c)]
           sorted == SortedChildren(arena, n)
<1>1. /\ IsArena(arena) /\ N \in Nat \ {0}
      /\ \A x \in 1 .. N : key[x] \in Keys
      /\ KeysApart(key, N)
      /\ \A x \in 2 .. N : Fold[arena[x].name] \in DOMAIN Rank
  <2>1. /\ IsArena(arena)
        /\ \A x \in 1 .. N : key[x] \in Keys
        /\ KeysApart(key, N)
        /\ \A x \in 2 .. N : arena[x].name \in FileNames
    BY DEF IsPathTree
  <2>2. N \in Nat \ {0} BY <2>1 DEF IsArena
  <2> HIDE DEF N
  <2> QED BY <2>1, <2>2, ZarLayoutAssumption DEF FileNames
<1>2. m \in Nat /\ DOMAIN children = 1 .. m /\ \A i \in 1 .. m : children[i] \in 1 .. N
  BY <1>1, NodeFields
<1>3. /\ \A i \in 1 .. m : children[i] > n
                           /\ key[children[i]] = Append(key[n], Fold[arena[children[i]].name])
      /\ \A i, j \in 1 .. m : children[i] = children[j] => i = j
  BY DEF IsPathTree, ChildrenKeyed
<1>4. C = {children[i] : i \in 1 .. m} BY <1>2 DEF Range
<1>5. \A c \in C : c \in 2 .. N /\ key[c] = Append(key[n], Fold[arena[c].name])
                   /\ Fold[arena[c].name] \in DOMAIN Rank
  <2>1. ASSUME NEW i \in 1 .. m PROVE children[i] \in 2 .. N
    <3> DEFINE c == children[i]
    <3>1. c \in 1 .. N /\ c > n /\ n \in 1 .. N BY <1>2, <1>3
    <3> HIDE DEF c, N
    <3> QED BY <1>1, <3>1 DEF c
  <2> HIDE DEF children, N
  <2> QED BY <1>1, <1>3, <1>4, <2>1
<1>6. IsFiniteSet(C) /\ Cardinality(C) = m
  <2> DEFINE g == [i \in 1 .. m |-> children[i]]
  <2>1. g \in Injection(1 .. m, C) /\ g \in Surjection(1 .. m, C)
    <3> HIDE DEF children, C
    <3> QED BY <1>3, <1>4 DEF Injection, IsInjective, Surjection
  <2>2. IsFiniteSet(1 .. m) /\ Cardinality(1 .. m) = m
    <3> HIDE DEF m
    <3> QED BY <1>2, CountUpTo
  <2> HIDE DEF g, C, m
  <2> QED BY <2>1, <2>2, FS_Surjection
<1>7. \A c \in C : r[c] = Rank[Fold[arena[c].name]] BY DEF RankOf
<1>8. \A c \in C : r[c] \in Nat
  <2> HIDE DEF C, r
  <2> QED BY <1>5, <1>7, ZarLayoutAssumption
<1>9. \A c, d \in C : r[c] = r[d] => c = d
  <2> HIDE DEF C, r
  <2> SUFFICES ASSUME NEW c \in C, NEW d \in C, r[c] = r[d] PROVE c = d OBVIOUS
  <2>1. Fold[arena[c].name] = Fold[arena[d].name]
    <3> DEFINE x == Fold[arena[c].name]
               y == Fold[arena[d].name]
    <3>1. x \in DOMAIN Rank /\ y \in DOMAIN Rank /\ Rank[x] = Rank[y] BY <1>5, <1>7
    <3> HIDE DEF x, y
    <3>2. x = y BY ONLY <3>1, ZarLayoutAssumption
    <3> QED BY <3>2 DEF x, y
  <2>2. key[c] = key[d]
    <3>1. /\ key[c] = Append(key[n], Fold[arena[c].name])
          /\ key[d] = Append(key[n], Fold[arena[d].name])
      BY <1>5
    <3> QED BY ONLY <2>1, <3>1
  <2>3. c \in 1 .. N /\ d \in 1 .. N BY <1>5
  <2> QED BY <1>1, <2>2, <2>3 DEF KeysApart
<1>10. /\ sorted = [i \in DOMAIN children |->
                      CHOOSE c \in C : Cardinality({d \in C : RankOf(arena, d) < RankOf(arena, c)})
                                         = i - 1]
       /\ \A c \in C : {d \in C : RankOf(arena, d) < RankOf(arena, c)} = RankedBelow(C, r, c)
  BY DEF SortedChildren, RankedBelow
<1> HIDE DEF C, r, sorted, m
<1>11. /\ \A c, d \in C : Cardinality(RankedBelow(C, r, c)) = Cardinality(RankedBelow(C, r, d)) => c = d
       /\ \A c \in C : Cardinality(RankedBelow(C, r, c)) \in 0 .. m - 1
       /\ \A i \in 0 .. m - 1 : \E c \in C : Cardinality(RankedBelow(C, r, c)) = i
  BY <1>6, <1>8, <1>9, RankPlaces
<1>12. \A i \in 1 .. m : sorted[i] \in C /\ Cardinality(RankedBelow(C, r, sorted[i])) = i - 1
  <2> SUFFICES ASSUME NEW i \in 1 .. m
      PROVE  sorted[i] \in C /\ Cardinality(RankedBelow(C, r, sorted[i])) = i - 1
    OBVIOUS
  <2>1. i - 1 \in 0 .. m - 1 /\ i \in DOMAIN children BY <1>2
  <2>2. \E c \in C : Cardinality({d \in C : RankOf(arena, d) < RankOf(arena, c)}) = i - 1
    BY <1>10, <1>11, <2>1
  <2>3. sorted[i] = CHOOSE c \in C : Cardinality({d \in C : RankOf(arena, d) < RankOf(arena, c)})
      = i - 1
    <3> HIDE DEF children
    <3> QED BY <1>10, <2>1
  <2>4. /\ sorted[i] \in C
        /\ Cardinality({d \in C : RankOf(arena, d) < RankOf(arena, sorted[i])}) = i - 1
    BY <2>2, <2>3
  <2> QED BY <1>10, <2>4
<1>13. HasLen(sorted, m)
  <2> DEFINE H(i) == CHOOSE c \in C : Cardinality({d \in C : RankOf(arena, d) < RankOf(arena, c)})
                                        = i - 1
  <2>1. sorted = [i \in DOMAIN children |-> H(i)] BY <1>10
  <2> HIDE DEF H, children
  <2> QED BY <1>2, <2>1 DEF HasLen
<1>14. \A i \in 1 .. m : \E j \in 1 .. m : sorted[i] = children[j] BY <1>4, <1>12
<1>15. \A i, j \in 1 .. m : sorted[i] = sorted[j] => i = j BY <1>2, <1>12
<1>16. ASSUME NEW j \in 1 .. m PROVE \E i \in 1 .. m : sorted[i] = children[j]
  <2> DEFINE c == children[j]
             k == Cardinality(RankedBelow(C, r, c))
  <2>1. c \in C /\ k \in 0 .. m - 1 BY <1>4, <1>11
  <2> HIDE DEF c, children
  <2>2. k + 1 \in 1 .. m /\ (k + 1) - 1 = k BY <1>2, <2>1
  <2>3. sorted[k + 1] = c BY <1>11, <1>12, <2>1, <2>2
  <2> QED BY <2>2, <2>3 DEF c
<1> QED BY <1>13, <1>14, <1>15, <1>16 DEF IsSorting, sorted, m

KidsOf(arena) == [n \in 1 .. Len(arena) |-> SortedChildren(arena, n)]

\* Of the same parent, and in the same place.
LEMMA ChildOnce ==
  ASSUME NEW arena, NEW key, IsPathTree(arena, key), NEW n \in 1 .. Len(arena),
         NEW k \in 1 .. Len(arena), NEW i \in 1 .. Len(arena[n].children),
         NEW j \in 1 .. Len(arena[k].children), arena[n].children[i] = arena[k].children[j]
  PROVE  n = k /\ i = j
<1> DEFINE c == arena[n].children[i]
           a == Fold[arena[c].name]
           p == key[n]
           q == key[k]
           N == Len(arena)
<1>1. /\ IsArena(arena) /\ N \in Nat \ {0} /\ KeysApart(key, N)
      /\ p \in Keys /\ q \in Keys
      /\ c \in 1 .. N /\ c > n /\ c > k
      /\ key[c] = Append(p, a) /\ key[c] = Append(q, a)
  <2>1. IsArena(arena) /\ KeysApart(key, N) /\ p \in Keys /\ q \in Keys BY DEF IsPathTree
  <2>2. N \in Nat \ {0} /\ c \in 1 .. N BY <2>1, NodeFields
  <2>3. ChildrenKeyed(arena, key) BY DEF IsPathTree
  <2>4. /\ arena[n].children[i] > n
        /\ key[arena[n].children[i]] = Append(key[n], Fold[arena[arena[n].children[i]].name])
    BY ONLY <2>3, n \in 1 .. Len(arena), i \in 1 .. Len(arena[n].children) DEF ChildrenKeyed
  <2>5. /\ arena[k].children[j] > k
        /\ key[arena[k].children[j]] = Append(key[k], Fold[arena[arena[k].children[j]].name])
    BY ONLY <2>3, k \in 1 .. Len(arena), j \in 1 .. Len(arena[k].children) DEF ChildrenKeyed
  <2> QED BY <2>1, <2>2, <2>4, <2>5
<1>2. a \in DOMAIN Rank
  <2>1. c \in 2 .. N
    <3>1. c \in 1 .. N /\ c > n /\ n \in 1 .. N BY <1>1
    <3> HIDE DEF c, N
    <3> QED BY <1>1, <3>1
  <2>2. arena[c].name \in FileNames
    <3> HIDE DEF c
    <3> QED BY <2>1 DEF IsPathTree
  <2> QED BY <2>2, ZarLayoutAssumption DEF FileNames
<1>3. p = q
  <2> HIDE DEF p, q, a, c
  <2>1. Append(p, a) = Append(q, a) BY <1>1
  <2> QED BY ONLY <1>1, <1>2, <2>1, KeySame
<1>4. n = k BY <1>1, <1>3 DEF KeysApart
<1> QED BY <1>4 DEF IsPathTree, ChildrenKeyed

\* Of the sorted children of all nodes: each node but the root is the child of one before it.
LEMMA KidsAre ==
  ASSUME NEW arena, NEW key, IsPathTree(arena, key)
  PROVE  /\ AreKids(KidsOf(arena), Len(arena)) /\ Len(arena) \in Nat \ {0}
         /\ \A n \in 1 .. Len(arena) : /\ KidsOf(arena)[n] = SortedChildren(arena, n)
                                       /\ Len(KidsOf(arena)[n]) = Len(arena[n].children)
<1> DEFINE N == Len(arena)
           kids == KidsOf(arena)
           m(n) == Len(arena[n].children)
<1>1. /\ IsArena(arena) /\ N \in Nat \ {0}
      /\ \A n \in 1 .. N : kids[n] = SortedChildren(arena, n)
  <2>1. IsArena(arena) /\ Len(arena) \in Nat \ {0} BY DEF IsPathTree, IsArena
  <2> QED BY <2>1 DEF KidsOf
<1> HIDE DEF kids
<1>2. ASSUME NEW n \in 1 .. N
      PROVE  /\ HasLen(kids[n], m(n)) /\ Len(kids[n]) = m(n) /\ m(n) \in Nat
             /\ \A i \in 1 .. m(n) : \E j \in 1 .. m(n) : kids[n][i] = arena[n].children[j]
             /\ \A i, j \in 1 .. m(n) : kids[n][i] = kids[n][j] => i = j
             /\ \A j \in 1 .. m(n) : \E i \in 1 .. m(n) : kids[n][i] = arena[n].children[j]
  <2>1. IsSorting(kids[n], arena[n].children) BY <1>1, ChildrenSorted
  <2>2. HasLen(kids[n], m(n)) BY <2>1 DEF IsSorting
  <2>3. Len(kids[n]) = m(n) /\ m(n) \in Nat BY <2>2, SequenceLength DEF HasLen
  <2> QED BY <2>1, <2>2, <2>3 DEF IsSorting
<1>3. \A n \in 1 .. N : \A i \in 1 .. m(n) : kids[n][i] \in 2 .. N
  <2> SUFFICES ASSUME NEW n \in 1 .. N, NEW i \in 1 .. m(n) PROVE kids[n][i] \in 2 .. N OBVIOUS
  <2>1. PICK j \in 1 .. m(n) : kids[n][i] = arena[n].children[j] BY <1>2
  <2> DEFINE c == arena[n].children[j]
  <2>2. c \in 1 .. N /\ c > n /\ n \in 1 .. N BY <1>1, NodeFields DEF IsPathTree, ChildrenKeyed
  <2> HIDE DEF c, N
  <2>3. c \in 2 .. N BY <1>1, <2>2
  <2> QED BY <2>1, <2>3 DEF c
<1>4. ASSUME NEW n \in 1 .. N, NEW k \in 1 .. N, NEW i \in 1 .. m(n), NEW j \in 1 .. m(k),
             kids[n][i] = kids[k][j]
      PROVE  n = k /\ i = j
  <2>1. PICK x \in 1 .. m(n) : kids[n][i] = arena[n].children[x] BY <1>2
  <2>2. PICK y \in 1 .. m(k) : kids[k][j] = arena[k].children[y] BY <1>2
  <2>3. arena[n].children[x] = arena[k].children[y] BY <1>4, <2>1, <2>2
  <2>4. n = k BY <2>3, ChildOnce
  <2> QED BY <1>2, <1>4, <2>4
<1>5. \A c \in 2 .. N : \E n \in 1 .. c - 1 : \E i \in 1 .. m(n) : kids[n][i] = c
  <2> SUFFICES ASSUME NEW c \in 2 .. N
      PROVE  \E n \in 1 .. c - 1 : \E i \in 1 .. m(n) : kids[n][i] = c
    OBVIOUS
  <2>1. PICK n \in 1 .. c - 1 : \E j \in 1 .. m(n) : arena[n].children[j] = c
    BY DEF IsPathTree, ChildrenKeyed
  <2>2. n \in 1 .. N BY <1>1
  <2> QED
    <3>1. PICK j \in 1 .. m(n) : arena[n].children[j] = c BY <2>1
    <3>2. PICK i \in 1 .. m(n) : kids[n][i] = arena[n].children[j] BY <1>2, <2>2
    <3> HIDE DEF m
    <3> QED BY <3>1, <3>2
<1>6. \A n \in 1 .. N : HasLen(kids[n], Len(kids[n])) /\ Len(kids[n]) = m(n) BY <1>2
<1> HIDE DEF m, N
<1>7. AreKids(kids, N)
  <2>1. \A n, k \in 1 .. N : \A i \in 1 .. Len(kids[n]), j \in 1 .. Len(kids[k]) :
      kids[n][i] = kids[k][j] => n = k /\ i = j
    BY <1>4, <1>6
  <2>2. \A c \in 2 .. N : \E n \in 1 .. c - 1 : \E i \in 1 .. Len(kids[n]) : kids[n][i] = c
    <3> SUFFICES ASSUME NEW c \in 2 .. N
        PROVE  \E n \in 1 .. c - 1 : \E i \in 1 .. Len(kids[n]) : kids[n][i] = c
      OBVIOUS
    <3>1. PICK n \in 1 .. c - 1 : \E i \in 1 .. m(n) : kids[n][i] = c BY <1>5
    <3>2. n \in 1 .. N BY <1>1
    <3> QED BY <1>6, <3>1, <3>2
  <2> QED BY <1>3, <1>6, <2>1, <2>2 DEF AreKids
<1> QED BY <1>1, <1>6, <1>7 DEF m, N, kids

\* The nodes in the order of their entries; the children of the k-th come
\* behind the l[k - 1]-th.
IsBreadthFirst(arena, order, l) ==
  /\ HasLen(order, Len(arena)) /\ order[1] = 1
  /\ \A x \in 1 .. Len(arena) : order[x] \in 1 .. Len(arena)
  /\ \A x, y \in 1 .. Len(arena) : order[x] = order[y] => x = y
  /\ \A n \in 1 .. Len(arena) : \E x \in 1 .. Len(arena) : order[x] = n
  /\ l[0] = 1 /\ l[Len(arena)] = Len(arena)
  /\ \A k \in 0 .. Len(arena) : l[k] \in 1 .. Len(arena)
  /\ \A k \in 1 .. Len(arena) :
       /\ k <= l[k - 1]
       /\ l[k] = l[k - 1] + Len(arena[order[k]].children)
       /\ \A j \in 1 .. Len(arena[order[k]].children) :
            order[l[k - 1] + j] = SortedChildren(arena, order[k])[j]

\* What is queued is a node, and the arena stays as it is.
Queues(arena) == [arena : {arena}, queue : Seq(1 .. Len(arena))]

\* What a turn of the queue does.
LEMMA EnqueueIs ==
  ASSUME NEW arena, NEW bfs \in Queues(arena), NEW i
  PROVE  /\ Enqueue(bfs, i).arena = arena
         /\ Enqueue(bfs, i).queue = IF i <= Len(bfs.queue)
                                    THEN bfs.queue \o SortedChildren(arena, bfs.queue[i])
                                    ELSE bfs.queue
         /\ DOMAIN Enqueue(bfs, i) = {"arena", "queue"}
         /\ Enqueue(bfs, i) = [arena |-> Enqueue(bfs, i).arena, queue |-> Enqueue(bfs, i).queue]
<1>1. /\ bfs = [arena |-> bfs.arena, queue |-> bfs.queue] /\ bfs.arena = arena BY DEF Queues
<1> DEFINE q == bfs.queue
           k == SortedChildren(arena, q[i])
<1>2. Enqueue(bfs, i) = IF i <= Len(q) THEN [bfs EXCEPT !.queue = q \o k] ELSE bfs BY <1>1 DEF Enqueue
<1> HIDE DEF q, k
<1>3. [bfs EXCEPT !.queue = q \o k] = [arena |-> arena, queue |-> q \o k]
  <2> DEFINE c == q \o k
  <2> HIDE DEF c
  <2>1. bfs = [arena |-> arena, queue |-> q] BY <1>1 DEF q
  <2>2. [bfs EXCEPT !.queue = c] = [arena |-> arena, queue |-> c] BY ONLY <2>1
  <2> QED BY <2>2 DEF c
<1>4. Enqueue(bfs, i) = [arena |-> arena, queue |-> IF i <= Len(q) THEN q \o k ELSE q]
  BY <1>1, <1>2, <1>3 DEF q
<1> HIDE DEF Enqueue
<1> QED BY <1>4 DEF q, k

\* The queue goes through every node once, and puts the children of each side by side.
LEMMA BreadthFirst ==
  ASSUME NEW arena, NEW key, IsPathTree(arena, key)
  PROVE  \E l : IsBreadthFirst(arena, BfsOrder(arena), l)
<1> DEFINE N == Len(arena)
           kids == KidsOf(arena)
           S == Queues(arena)
           base == [arena |-> arena, queue |-> <<1>>]
           elements == [i \in DOMAIN arena |-> i]
<1>1. /\ N \in Nat \ {0} /\ DOMAIN arena = 1 .. N
  <2>1. N \in Nat \ {0} /\ IsArena(arena) BY KidsAre DEF IsPathTree
  <2>2. 1 \in 1 .. N BY <2>1
  <2> QED BY <2>1, <2>2, NodeFields
<1>2. /\ AreKids(kids, N)
      /\ \A n \in 1 .. N : kids[n] = SortedChildren(arena, n) /\ Len(kids[n]) = Len(arena[n].children)
  BY KidsAre
<1> HIDE DEF kids
<1>3. base \in S
  <2> DEFINE q == <<1>>
  <2>1. q \in Seq(1 .. N) BY <1>1
  <2> HIDE DEF q, N
  <2>2. base = [arena |-> arena, queue |-> q] BY DEF q
  <2> QED BY <2>1, <2>2 DEF Queues, N
<1>4. \A n \in 1 .. N : kids[n] \in Seq(1 .. N) /\ HasLen(kids[n], Len(kids[n]))
  <2> SUFFICES ASSUME NEW n \in 1 .. N
      PROVE  kids[n] \in Seq(1 .. N) /\ HasLen(kids[n], Len(kids[n]))
    OBVIOUS
  <2>1. HasLen(kids[n], Len(kids[n])) /\ \A i \in 1 .. Len(kids[n]) : kids[n][i] \in 2 .. N
    BY <1>2 DEF AreKids
  <2> DEFINE V == 1 .. N
  <2>2. \A i \in 1 .. Len(kids[n]) : kids[n][i] \in V BY <1>1, <2>1
  <2> HIDE DEF V
  <2>3. kids[n] \in Seq(V) BY ONLY <2>1, <2>2, SequenceIsSeq
  <2> QED BY <2>1, <2>3 DEF V
<1>5. ASSUME NEW k \in 1 .. N, NEW x \in S
      PROVE  Enqueue(x, elements[k]) \in S
  <2> DEFINE q == x.queue
             e == Enqueue(x, k)
  <2>1. q \in Seq(1 .. N) BY DEF Queues
  <2>2. elements[k] = k BY <1>1
  <2>3. /\ e.arena = arena /\ e = [arena |-> e.arena, queue |-> e.queue]
        /\ e.queue = IF k <= Len(q) THEN q \o SortedChildren(arena, q[k]) ELSE q
    BY EnqueueIs
  <2>4. e.queue \in Seq(1 .. N)
    <3>1. CASE k <= Len(q)
      <4>1. q[k] \in 1 .. N BY <2>1, <3>1
      <4>2. SortedChildren(arena, q[k]) \in Seq(1 .. N) BY <4>1, <1>2, <1>4
      <4> HIDE DEF q, e, N
      <4> QED BY <2>1, <2>3, <3>1, <4>2
    <3>2. CASE ~(k <= Len(q)) BY <2>1, <2>3, <3>2
    <3> QED BY <3>1, <3>2
  <2> HIDE DEF e, N
  <2>5. e \in S BY <2>3, <2>4 DEF Queues, N
  <2> HIDE DEF S, elements
  <2> QED BY <2>2, <2>5 DEF e
<1>6. HasLen(elements, N) BY <1>1 DEF HasLen
<1> HIDE DEF base, elements, S, N
<1>7. PICK run : IsEnqueueRun(run, base, elements, N, S) /\ FoldLeft(Enqueue, base, elements) = run[N]
  BY <1>3, <1>5, <1>6, EnqueueRun
<1> DEFINE q == [k \in 0 .. N |-> run[k].queue]
           l == [k \in 0 .. N |-> Len(q[k])]
<1>8. BfsOrder(arena) = q[N]
  <2>1. BfsOrder(arena) = FoldLeft(Enqueue, base, elements).queue BY DEF BfsOrder, base, elements
  <2> QED BY <1>1, <1>7, <2>1
<1>9. /\ q[0] = <<1>>
      /\ \A k \in 0 .. N : q[k] \in Seq(1 .. N) /\ l[k] = Len(q[k])
      /\ \A k \in 1 .. N : q[k] = IF k <= l[k - 1] THEN q[k - 1] \o SortedChildren(arena, q[k - 1][k])
                                                   ELSE q[k - 1]
  <2>1. q[0] = <<1>> BY <1>1, <1>7 DEF IsEnqueueRun, base
  <2>2. ASSUME NEW k \in 0 .. N PROVE q[k] \in Seq(1 .. N) /\ l[k] = Len(q[k])
    BY <1>7 DEF IsEnqueueRun, S, Queues, N
  <2>3. ASSUME NEW k \in 1 .. N
        PROVE  q[k] = IF k <= l[k - 1] THEN q[k - 1] \o SortedChildren(arena, q[k - 1][k])
                                       ELSE q[k - 1]
    <3>1. k - 1 \in 0 .. N /\ k \in 0 .. N BY <1>1
    <3>2. run[k - 1] \in S /\ run[k] = Enqueue(run[k - 1], k)
      BY <1>1, <1>7, <3>1 DEF IsEnqueueRun, elements
    <3>3. run[k].queue = IF k <= Len(run[k - 1].queue)
        THEN run[k - 1].queue \o SortedChildren(arena, run[k - 1].queue[k])
        ELSE run[k - 1].queue
      BY <3>2, EnqueueIs DEF S
    <3> QED BY <3>1, <3>3
  <2> QED BY <2>1, <2>2, <2>3
<1> HIDE DEF q, l
<1> DEFINE H(i) == i <= N => Queued(q[i], l, kids, N, i)
           D == {i \in Nat : H(i)}
<1>10. 0 \in D
  <2>1. q[0] = <<1>> /\ HasLen(<<1>>, 1) /\ <<1>>[1] = 1 BY <1>9, SequenceSingle
  <2>2. l[0] = 1
    <3>1. HasLen(q[0], 1) /\ 0 \in 0 .. N BY <1>1, <2>1
    <3>2. Len(q[0]) = 1 BY ONLY <3>1, SequenceLength
    <3> QED BY <1>9, <3>1, <3>2
  <2>3. Queued(q[0], l, kids, N, 0) BY <1>1, <2>1, <2>2 DEF Queued
  <2> QED BY <2>3
<1>11. ASSUME NEW i \in Nat, i \in D PROVE i + 1 \in D
  <2> SUFFICES ASSUME i + 1 <= N PROVE Queued(q[i + 1], l, kids, N, i + 1) OBVIOUS
  <2>1. /\ i \in 0 .. N - 1 /\ i + 1 \in 1 .. N /\ (i + 1) - 1 = i /\ i < N
        /\ Queued(q[i], l, kids, N, i)
    BY <1>1, <1>11
  <2>2. i + 1 <= l[i] /\ HasLen(q[i], l[i]) BY <2>1 DEF Queued
  <2> DEFINE n == q[i][i + 1]
             e == kids[n]
             m == Len(e)
  <2>3. i + 1 \in 1 .. l[i] /\ n \in 1 .. N
    <3>1. l[i] \in Nat BY <2>1 DEF Queued
    <3>2. i + 1 \in 1 .. l[i] BY <2>1, <2>2, <3>1
    <3> QED BY <2>1, <3>2 DEF Queued
  <2>4. q[i + 1] = q[i] \o e BY <1>2, <1>9, <2>1, <2>2, <2>3
  <2>5. HasLen(e, m) BY <1>4, <2>3
  <2>6. IsConcat(q[i + 1], q[i], l[i], e, m)
    <3> HIDE DEF e, m
    <3>1. IsConcat(q[i] \o e, q[i], l[i], e, m) BY <2>2, <2>5, SequenceConcat
    <3> QED BY <2>4, <3>1
  <2>7. l[i + 1] = l[i] + m
    <3>1. HasLen(q[i + 1], l[i] + m) BY <2>6 DEF IsConcat
    <3>2. Len(q[i + 1]) = l[i] + m BY <3>1, SequenceLength
    <3>3. i + 1 \in 0 .. N BY <2>1
    <3> QED BY <1>9, <3>2, <3>3
  <2> QED BY <1>1, <1>2, <2>1, <2>6, <2>7, QueueStep
<1>12. Nat \subseteq D
  <2> HIDE DEF D
  <2> QED BY <1>10, <1>11, NatInduct
<1>13. \A i \in 0 .. N : Queued(q[i], l, kids, N, i)
  <2> SUFFICES ASSUME NEW i \in 0 .. N PROVE Queued(q[i], l, kids, N, i) OBVIOUS
  <2>1. i \in Nat /\ i <= N BY <1>1
  <2>2. H(i)
    <3> HIDE DEF H
    <3> QED BY <1>12, <2>1
  <2> QED BY <2>1, <2>2
<1> DEFINE order == q[N]
           M == l[N]
<1>14. /\ HasLen(order, M) /\ order[1] = 1 /\ l[0] = 1
       /\ \A x \in 1 .. M : order[x] \in 1 .. N
       /\ \A x, y \in 1 .. M : order[x] = order[y] => x = y
       /\ \A k \in 0 .. N : l[k] \in Nat \ {0} /\ l[k] <= M
       /\ \A k \in 1 .. N : /\ k <= l[k - 1]
                            /\ l[k] = l[k - 1] + Len(kids[order[k]])
                            /\ \A j \in 1 .. Len(kids[order[k]]) : order[l[k - 1] + j] = kids[order[k]][j]
  <2>1. N \in 0 .. N BY <1>1
  <2>2. Queued(order, l, kids, N, N) BY <1>13, <2>1
  <2> HIDE DEF order
  <2>3. /\ HasLen(order, M) /\ order[1] = 1 /\ l[0] = 1
        /\ \A x \in 1 .. M : order[x] \in 1 .. N
        /\ \A x, y \in 1 .. M : order[x] = order[y] => x = y
        /\ \A k \in 0 .. N : l[k] \in Nat \ {0} /\ l[k] <= M
    BY <2>2 DEF Queued
  <2>4. \A k \in 1 .. N : /\ k <= l[k - 1]
                          /\ l[k] = l[k - 1] + Len(kids[order[k]])
                          /\ \A j \in 1 .. Len(kids[order[k]]) : order[l[k - 1] + j] = kids[order[k]][j]
    BY <2>2 DEF Queued
  <2> QED BY <2>3, <2>4
<1>15. M \in Nat /\ N <= M
  <2>1. N \in 0 .. N /\ N \in 1 .. N /\ N - 1 \in 0 .. N BY <1>1
  <2>2. N <= l[N - 1] /\ l[N - 1] <= M /\ l[N - 1] \in Nat /\ M \in Nat BY <1>14, <2>1
  <2> HIDE DEF M
  <2> QED BY <1>1, <2>2
<1> HIDE DEF order, M
<1>16. M <= N /\ (M = N => \A n \in 1 .. N : \E x \in 1 .. M : order[x] = n)
  <2>1. N \in Nat /\ M \in Nat BY <1>1, <1>15
  <2>2. \A x \in 1 .. M : order[x] \in 1 .. N BY <1>14
  <2>3. \A x, y \in 1 .. M : order[x] = order[y] => x = y BY <1>14
  <2>4. M <= N BY ONLY <2>1, <2>2, <2>3, CountInjective
  <2>5. M = N => \A n \in 1 .. N : \E x \in 1 .. M : order[x] = n
    BY ONLY <2>1, <2>2, <2>3, CountInjective, SMTT(30)
  <2> QED BY <2>4, <2>5
<1>17. M = N BY <1>1, <1>15, <1>16
<1>18. \A k \in 1 .. N : /\ Len(kids[order[k]]) = Len(arena[order[k]].children)
                         /\ kids[order[k]] = SortedChildren(arena, order[k])
  BY <1>2, <1>14, <1>17
<1>19. IsBreadthFirst(arena, order, l)
  <2>1. \A k \in 0 .. N : l[k] \in 1 .. N BY <1>1, <1>14, <1>17
  <2>2. l[N] = N BY <1>17 DEF M
  <2>3. \A k \in 1 .. N : /\ k <= l[k - 1]
                          /\ l[k] = l[k - 1] + Len(arena[order[k]].children)
                          /\ \A j \in 1 .. Len(arena[order[k]].children) :
                               order[l[k - 1] + j] = SortedChildren(arena, order[k])[j]
    BY <1>14, <1>18
  <2> QED BY <1>14, <1>16, <1>17, <2>1, <2>2, <2>3 DEF IsBreadthFirst, N
<1> QED BY <1>8, <1>19 DEF order

-----------------------------------------------------------------------------
(* The entries of the file tree                                              *)

\* The halves of a number below Word * Half.
LEMMA HighHalf ==
  ASSUME NEW a \in Nat, a < Word * Half
  PROVE  /\ a \div Word \in 0 .. Half - 1 /\ (a \div Word) % Half = a \div Word
         /\ a % Word \in Nat /\ a = (a % Word) + Word * (a \div Word)
<1> DEFINE q == a \div Word
           W == Word
           H == Half
<1>1. W \in Nat \ {0} /\ H \in Nat \ {0} BY ZarLayoutAssumption
<1>2. q \in Nat /\ a % W \in Nat /\ a = q * W + (a % W) /\ q * W <= a BY <1>1, DivMod, DivBounds
<1> HIDE DEF q, W, H
<1>3. q < H
  <2> SUFFICES ASSUME H <= q PROVE FALSE BY <1>1, <1>2
  <2>1. H * W <= q * W BY <1>1, <1>2, MultMonotonic
  <2>2. a < W * H BY DEF W, H
  <2> QED BY <1>1, <1>2, <2>1, <2>2
<1>4. q % H = q BY <1>1, <1>2, <1>3
<1>5. a = (a % W) + W * q BY <1>1, <1>2
<1> QED BY <1>1, <1>2, <1>3, <1>4, <1>5 DEF q, W, H

\* Offset and size come back from the two low words and the shared high one.
LEMMA WordsReadBack ==
  ASSUME NEW a \in Nat, a < Word * Half, NEW b \in Nat, b < Word * Half,
         NEW entry, entry.words = <<a % Word, b % Word, HighWord(a, b)>>
  PROVE  FileOffset(entry) = a /\ FileSize(entry) = b
<1> DEFINE p == a \div Word
           q == b \div Word
           x == a % Word
           y == b % Word
           h == HighWord(a, b)
<1>1. /\ p \in 0 .. Half - 1 /\ p % Half = p /\ x \in Nat /\ a = x + Word * p
      /\ q \in 0 .. Half - 1 /\ q % Half = q /\ y \in Nat /\ b = y + Word * q
  BY HighHalf
<1>2. h = p + Half * q BY <1>1 DEF HighWord
<1>3. h % Half = p /\ (h \div Half) % Half = q
  <2>1. Half \in Nat \ {0} BY ZarLayoutAssumption
  <2> HIDE DEF p, q, h
  <2> QED BY <1>1, <1>2, <2>1, HalvesApart
<1> HIDE DEF p, q, x, y, h
<1>4. entry.words[1] = x /\ entry.words[2] = y /\ entry.words[3] = h BY DEF x, y, h
<1> QED BY <1>1, <1>3, <1>4 DEF FileOffset, FileSize

\* The first child of the i-th node is behind those of the nodes before it.
LEMMA StartIndex ==
  ASSUME NEW arena, NEW key, IsPathTree(arena, key), NEW order, NEW l,
         IsBreadthFirst(arena, order, l)
  PROVE  \A i \in 1 .. Len(arena) : NodeStartIndex(arena, order, i) = l[i - 1]
<1> DEFINE N == Len(arena)
           g == [k \in 1 .. N |-> Len(arena[order[k]].children)]
           sum(i) == FoldLeft(+, 0, [k \in 1 .. i |-> g[k]])
<1>1. N \in Nat \ {0} /\ \A n \in 1 .. N : Len(arena[n].children) \in Nat
  <2>1. N \in Nat \ {0} /\ IsArena(arena) BY KidsAre DEF IsPathTree
  <2> QED BY <2>1, NodeFields
<1>2. /\ \A k \in 1 .. N : g[k] \in Nat /\ g[k] = Len(arena[order[k]].children)
      /\ HasLen(g, N)
  BY <1>1 DEF IsBreadthFirst, HasLen
<1>3. l[0] = 1 /\ \A k \in 1 .. N : l[k] = l[k - 1] + g[k] /\ l[k] \in Nat
  <2>1. /\ l[0] = 1 /\ \A k \in 0 .. N : l[k] \in 1 .. N
        /\ \A k \in 1 .. N : l[k] = l[k - 1] + Len(arena[order[k]].children)
    BY DEF IsBreadthFirst
  <2> HIDE DEF g, N
  <2>2. \A k \in 1 .. N : k \in 0 .. N BY <1>1
  <2> QED BY <1>1, <1>2, <2>1, <2>2
<1> HIDE DEF g
<1>4. /\ sum(0) = 0 /\ \A k \in 0 .. N : sum(k) \in Nat
      /\ \A k \in 1 .. N : sum(k) = sum(k - 1) + g[k]
  BY <1>1, <1>2, FoldedSums
<1> HIDE DEF sum, N
<1> DEFINE H(k) == k <= N => l[k] = 1 + sum(k)
           D == {k \in Nat : H(k)}
<1>5. 0 \in D BY <1>3, <1>4
<1>6. ASSUME NEW k \in Nat, k \in D PROVE k + 1 \in D
  <2> SUFFICES ASSUME k + 1 <= N PROVE l[k + 1] = 1 + sum(k + 1) OBVIOUS
  <2>1. k + 1 \in 1 .. N /\ (k + 1) - 1 = k /\ l[k] = 1 + sum(k) /\ k \in 0 .. N BY <1>1, <1>6
  <2>2. l[k + 1] = l[k] + g[k + 1] /\ sum(k + 1) = sum(k) + g[k + 1] BY <1>3, <1>4, <2>1
  <2>3. sum(k) \in Nat /\ g[k + 1] \in Nat BY <1>2, <1>4, <2>1
  <2> QED BY <2>1, <2>2, <2>3
<1>7. Nat \subseteq D
  <2> HIDE DEF D
  <2> QED BY <1>5, <1>6, NatInduct
<1>8. ASSUME NEW i \in 1 .. N
      PROVE  NodeStartIndex(arena, order, i) = l[i - 1]
  <2> DEFINE e == [k \in 1 .. i - 1 |-> Len(arena[order[k]].children)]
  <2>1. i - 1 \in Nat /\ i - 1 <= N BY <1>1
  <2>2. l[i - 1] = 1 + sum(i - 1)
    <3>1. H(i - 1)
      <4> HIDE DEF H
      <4> QED BY <1>7, <2>1
    <3> QED BY <2>1, <3>1
  <2>3. \A k \in 1 .. i - 1 : k \in 1 .. N BY <1>1
  <2>4. e = [k \in 1 .. i - 1 |-> g[k]] BY <1>2, <2>3
  <2>5. NodeStartIndex(arena, order, i) = 1 + FoldLeft(+, 0, e) BY DEF NodeStartIndex
  <2> QED BY <2>2, <2>4, <2>5 DEF sum
<1> QED BY <1>8 DEF N

\* What build_files() reads in the tree.
IsTreeOf(tree, table, arena, order, l) ==
  /\ HasLen(tree, Len(arena))
  /\ \A i \in 1 .. Len(arena) : tree[i].is_file = arena[order[i]].is_file
  /\ \A i \in 2 .. Len(arena) : ReadName(table, tree[i].name_offset) = Encoded[arena[order[i]].name]
  /\ \A i \in 1 .. Len(arena) : tree[i].is_file =>
       /\ FileOffset(tree[i]) = arena[order[i]].file_offset
       /\ FileSize(tree[i]) = arena[order[i]].file_size
  /\ \A i \in 1 .. Len(arena) : ~tree[i].is_file =>
       /\ tree[i].words[1] = l[i - 1]
       /\ tree[i].words[2] = Len(arena[order[i]].children)

\* The entries of the file tree say of each node what the tree does.
LEMMA FileTreeIs ==
  ASSUME NEW list \in Seq(FileEntry), FileStart(list, Len(list) + 1) < Word * Half,
         NEW arena, NEW key, IsPathTree(arena, key), NEW node,
         FilesHeld(arena, key, list, node, Len(list)),
         NEW l, IsBreadthFirst(arena, BfsOrder(arena), l)
  PROVE  IsTreeOf(FileTree(arena, Interned(arena)), NameTable(Interned(arena)), arena,
                  BfsOrder(arena), l)
<1> DEFINE N == Len(arena)
           order == BfsOrder(arena)
           names == Interned(arena)
           table == NameTable(names)
           tree == FileTree(arena, names)
<1>1. /\ N \in Nat \ {0} /\ IsArena(arena)
      /\ names \in Seq(FileNames) /\ \A n \in 2 .. N : Contains(names, arena[n].name)
      /\ \A n \in 2 .. N : arena[n].name \in FileNames
  BY KidsAre, InternedNames DEF IsPathTree
<1>2. /\ HasLen(order, N) /\ order[1] = 1 /\ \A i \in 1 .. N : order[i] \in 1 .. N
      /\ \A i, j \in 1 .. N : order[i] = order[j] => i = j
  BY DEF IsBreadthFirst
<1>3. \A i \in 1 .. N : NodeStartIndex(arena, order, i) = l[i - 1] BY StartIndex
<1> HIDE DEF order, names
<1>4. HasLen(tree, N) /\ \A i \in 1 .. N : tree[i] = TreeEntry(arena, order, names, i)
  <2>1. Len(order) = N BY <1>2, SequenceLength
  <2>2. tree = [i \in 1 .. N |-> TreeEntry(arena, order, names, i)] BY <2>1 DEF FileTree, order
  <2> HIDE DEF tree
  <2> QED BY <1>1, <2>2 DEF HasLen
<1> HIDE DEF tree, table
<1>5. ASSUME NEW i \in 1 .. N
      PROVE  /\ tree[i].is_file = arena[order[i]].is_file
             /\ tree[i].name_offset = IF i = 1 THEN NoNameOffset
                                      ELSE NameOffset(names, arena[order[i]].name)
             /\ tree[i].words = IF arena[order[i]].is_file
                    THEN <<arena[order[i]].file_offset % Word, arena[order[i]].file_size % Word,
                           HighWord(arena[order[i]].file_offset, arena[order[i]].file_size)>>
                    ELSE <<NodeStartIndex(arena, order, i), Len(arena[order[i]].children), 0>>
  <2> DEFINE n == arena[order[i]]
             f == n.is_file
             o == IF i = 1 THEN NoNameOffset ELSE NameOffset(names, n.name)
             w == IF n.is_file
                  THEN <<n.file_offset % Word, n.file_size % Word,
                         HighWord(n.file_offset, n.file_size)>>
                  ELSE <<NodeStartIndex(arena, order, i), Len(n.children), 0>>
  <2>1. TreeEntry(arena, order, names, i) = [is_file |-> f, name_offset |-> o, words |-> w]
    BY DEF TreeEntry
  <2>2. tree[i] = [is_file |-> f, name_offset |-> o, words |-> w] BY <1>4, <2>1
  <2> HIDE DEF f, o, w
  <2>3. tree[i].is_file = f /\ tree[i].name_offset = o /\ tree[i].words = w BY <2>2
  <2> QED BY <2>3 DEF f, o, w
<1>6. ASSUME NEW i \in 2 .. N
      PROVE  ReadName(table, tree[i].name_offset) = Encoded[arena[order[i]].name]
  <2> DEFINE n == order[i]
             name == arena[n].name
  <2>1. i \in 1 .. N /\ i # 1 /\ 1 \in 1 .. N BY <1>1
  <2>2. n \in 1 .. N /\ n # 1 BY <1>2, <2>1
  <2> HIDE DEF n
  <2>3. n \in 2 .. N BY <1>1, <2>2
  <2>4. name \in FileNames /\ Contains(names, name) BY <1>1, <2>3
  <2> HIDE DEF name
  <2>5. ReadName(NameTable(names), NameOffset(names, name)) = Encoded[name] BY <1>1, <2>4, NameReadsBack
  <2>6. tree[i].name_offset = NameOffset(names, name) BY <1>5, <2>1 DEF name, n
  <2> QED BY <2>5, <2>6 DEF table, name, n
<1>7. ASSUME NEW i \in 1 .. N, tree[i].is_file
      PROVE  /\ FileOffset(tree[i]) = arena[order[i]].file_offset
             /\ FileSize(tree[i]) = arena[order[i]].file_size
  <2> DEFINE n == order[i]
             a == arena[n].file_offset
             b == arena[n].file_size
             M == Len(list)
  <2>1. n \in 1 .. N /\ arena[n].is_file BY <1>2, <1>5, <1>7
  <2>2. PICK f \in 1 .. M : node[f] = n BY <2>1 DEF FilesHeld
  <2>3. a = FileStart(list, f) /\ b = list[f].size BY <2>2 DEF FilesHeld
  <2>4. /\ M \in Nat /\ FileStart(list, f) \in Nat
        /\ FileStart(list, f + 1) = FileStart(list, f) + list[f].size
    BY FileStarts
  <2>5. list[f].size \in Nat
    <3>1. list[f] \in FileEntry BY SeqIsSequence
    <3> QED BY <3>1 DEF FileEntry
  <2>6. /\ FileStart(list, f) <= FileStart(list, M + 1)
        /\ FileStart(list, f + 1) <= FileStart(list, M + 1)
        /\ FileStart(list, M + 1) \in Nat
    <3>1. M + 1 \in 1 .. M + 1 /\ f \in 1 .. M + 1 /\ f + 1 \in 1 .. M + 1 BY <2>4
    <3> QED BY <3>1, FileStarts, FileStartsRise
  <2>7. Word * Half \in Nat BY ZarLayoutAssumption
  <2> DEFINE s == FileStart(list, f)
             t == FileStart(list, f + 1)
             u == FileStart(list, M + 1)
             z == list[f].size
             W == Word * Half
  <2>8. /\ s \in Nat /\ z \in Nat /\ t = s + z /\ s <= u /\ t <= u /\ u < W /\ u \in Nat /\ W \in Nat
    BY <2>4, <2>5, <2>6, <2>7
  <2> HIDE DEF s, t, u, z, W
  <2>9. s < W /\ z < W BY <2>8
  <2>10. a \in Nat /\ b \in Nat /\ a < Word * Half /\ b < Word * Half BY <2>3, <2>8, <2>9 DEF s, z, W
  <2>11. tree[i].words = <<a % Word, b % Word, HighWord(a, b)>> BY <1>5, <2>1
  <2> HIDE DEF a, b
  <2>12. FileOffset(tree[i]) = a /\ FileSize(tree[i]) = b BY <2>10, <2>11, WordsReadBack
  <2> QED BY <2>12 DEF a, b
<1>8. ASSUME NEW i \in 1 .. N, ~tree[i].is_file
      PROVE  /\ tree[i].words[1] = l[i - 1]
             /\ tree[i].words[2] = Len(arena[order[i]].children)
  <2>1. tree[i].words = <<NodeStartIndex(arena, order, i), Len(arena[order[i]].children), 0>>
    BY <1>5, <1>8
  <2> QED BY <1>3, <2>1
<1> QED BY <1>4, <1>5, <1>6, <1>7, <1>8 DEF IsTreeOf, N, order, names, table, tree

-----------------------------------------------------------------------------
(* The listing                                                               *)

\* What can be read in a tree.
NamesRead(table, tree) == {ReadName(table, tree[i].name_offset) : i \in 1 .. Len(tree)}

ListedFiles(table, tree) ==
  [path : Seq(NamesRead(table, tree)), offset : {FileOffset(tree[i]) : i \in 1 .. Len(tree)},
   size : {FileSize(tree[i]) : i \in 1 .. Len(tree)}]

DirIndices(tree) == {j \in Nat : j < Len(tree) /\ ~tree[j + 1].is_file}

ListedDirs(table, tree) == [idx : DirIndices(tree), prefix : Seq(NamesRead(table, tree))]

Readings(table, tree) ==
  [table : {table}, tree : {tree}, files : Seq(ListedFiles(table, tree)),
   queue : Seq(ListedDirs(table, tree)), ok : BOOLEAN]

Children(table, tree) == [idx : Nat, prefix : Seq(NamesRead(table, tree))]

ReadingBuilt(table, tree, files_, queue_, ok_) ==
  [table |-> table, tree |-> tree, files |-> files_, queue |-> queue_, ok |-> ok_]

\* The fields of a listing under way.
LEMMA ReadingFields ==
  ASSUME NEW table, NEW tree, NEW walk \in Readings(table, tree)
  PROVE  /\ walk.table = table /\ walk.tree = tree
         /\ walk.files \in Seq(ListedFiles(table, tree))
         /\ walk.queue \in Seq(ListedDirs(table, tree))
         /\ walk.ok \in BOOLEAN
         /\ walk = ReadingBuilt(table, tree, walk.files, walk.queue, walk.ok)
BY DEF Readings, ReadingBuilt

\* A listing by its fields.
LEMMA ReadingTyped ==
  ASSUME NEW table, NEW tree, NEW f \in Seq(ListedFiles(table, tree)),
         NEW q \in Seq(ListedDirs(table, tree)), NEW o \in BOOLEAN
  PROVE  /\ ReadingBuilt(table, tree, f, q, o) \in Readings(table, tree)
         /\ ReadingBuilt(table, tree, f, q, o).files = f
         /\ ReadingBuilt(table, tree, f, q, o).queue = q
         /\ ReadingBuilt(table, tree, f, q, o).ok = o
BY DEF Readings, ReadingBuilt

\* The updates of a listing.
LEMMA OkUpdated ==
  ASSUME NEW table, NEW tree, NEW walk, NEW f, NEW q, NEW o,
         walk = ReadingBuilt(table, tree, f, q, o), NEW e
  PROVE  [walk EXCEPT !.ok = e] = ReadingBuilt(table, tree, f, q, e)
<1>1. walk = [table |-> table, tree |-> tree, files |-> f, queue |-> q, ok |-> o] BY DEF ReadingBuilt
<1> QED BY ONLY <1>1 DEF ReadingBuilt

\* A listing with other files.
LEMMA FilesUpdated ==
  ASSUME NEW table, NEW tree, NEW walk, NEW f, NEW q, NEW o,
         walk = ReadingBuilt(table, tree, f, q, o), NEW e
  PROVE  [walk EXCEPT !.files = e] = ReadingBuilt(table, tree, e, q, o)
<1>1. walk = [table |-> table, tree |-> tree, files |-> f, queue |-> q, ok |-> o] BY DEF ReadingBuilt
<1> QED BY ONLY <1>1 DEF ReadingBuilt

\* A listing with another queue.
LEMMA QueueUpdated ==
  ASSUME NEW table, NEW tree, NEW walk, NEW f, NEW q, NEW o,
         walk = ReadingBuilt(table, tree, f, q, o), NEW e
  PROVE  [walk EXCEPT !.queue = e] = ReadingBuilt(table, tree, f, e, o)
<1>1. walk = [table |-> table, tree |-> tree, files |-> f, queue |-> q, ok |-> o] BY DEF ReadingBuilt
<1> QED BY ONLY <1>1 DEF ReadingBuilt

\* What a child comes to.
ListsChild(walk, child, next) ==
  LET entry == walk.tree[child.idx + 1]
      name == ReadName(walk.table, entry.name_offset)
      path == Append(child.prefix, name)
  IN /\ ~walk.ok => next = walk
     /\ /\ walk.ok /\ child.idx < Len(walk.tree) /\ name # NoName
        /\ entry.is_file \/ \A a \in 1 .. Len(walk.queue) : walk.queue[a].idx # child.idx
        => /\ next.ok
           /\ entry.is_file => /\ next.queue = walk.queue
                               /\ next.files = Append(walk.files, [path |-> path,
                                                                   offset |-> FileOffset(entry),
                                                                   size |-> FileSize(entry)])
           /\ ~entry.is_file => /\ next.files = walk.files
                                /\ next.queue = Append(walk.queue, [idx |-> child.idx,
                                                                    prefix |-> path])

\* What one entry does to a listing.
LEMMA ListChildIs ==
  ASSUME NEW table, NEW tree, HasLen(tree, Len(tree)),
         \A i \in 1 .. Len(tree) : tree[i].is_file \in BOOLEAN,
         NEW walk \in Readings(table, tree), NEW child \in Children(table, tree)
  PROVE  /\ ListChild(walk, child) \in Readings(table, tree)
         /\ ListsChild(walk, child, ListChild(walk, child))
<1> DEFINE N == Len(tree)
           idx == child.idx
           entry == tree[idx + 1]
           name == ReadName(table, entry.name_offset)
           path == Append(child.prefix, name)
           f == walk.files
           q == walk.queue
           o == walk.ok
           offset == FileOffset(entry)
           size == FileSize(entry)
           file == [path |-> path, offset |-> offset, size |-> size]
           dir == [idx |-> idx, prefix |-> path]
           next == ListChild(walk, child)
           there == idx \in {d.idx : d \in Range(q)}
           V == NamesRead(table, tree)
           Built(a, b, c) == ReadingBuilt(table, tree, a, b, c)
<1>1. /\ walk.table = table /\ walk.tree = tree /\ o \in BOOLEAN
      /\ f \in Seq(ListedFiles(table, tree)) /\ q \in Seq(ListedDirs(table, tree))
      /\ walk = Built(f, q, o)
  BY ReadingFields
<1>2. idx \in Nat /\ child.prefix \in Seq(V) /\ N \in Nat BY DEF Children, HasLen
<1>3. /\ ~o => next = walk
      /\ o /\ (idx >= N \/ name = NoName \/ (~entry.is_file /\ there))
         => next = [walk EXCEPT !.ok = FALSE]
      /\ o /\ idx < N /\ name # NoName /\ entry.is_file
         => next = [walk EXCEPT !.files = Append(f, file)]
      /\ o /\ idx < N /\ name # NoName /\ ~entry.is_file /\ ~there
         => next = [walk EXCEPT !.queue = Append(q, dir)]
  <2> DEFINE p == IF \/ name = NoName
                     \/ ~entry.is_file /\ there
                  THEN [walk EXCEPT !.ok = FALSE]
                  ELSE IF entry.is_file THEN [walk EXCEPT !.files = Append(f, file)]
                  ELSE [walk EXCEPT !.queue = Append(q, dir)]
             z == [walk EXCEPT !.ok = FALSE]
  <2>1. next = CASE ~o -> walk [] o /\ idx >= N -> z
                 [] OTHER -> p
    BY <1>1 DEF ListChild
  <2>2. /\ name = NoName \/ (~entry.is_file /\ there) => p = z
        /\ name # NoName /\ entry.is_file => p = [walk EXCEPT !.files = Append(f, file)]
        /\ name # NoName /\ ~entry.is_file /\ ~there => p = [walk EXCEPT !.queue = Append(q, dir)]
    <3> HIDE DEF z, o, N, idx, there, name, entry, file, dir, f, q
    <3> QED BY DEF z
  <2> HIDE DEF next, p, z, o, N, idx, there, name, entry
  <2>3. /\ ~o => next = walk
        /\ o /\ idx >= N => next = z
        /\ o /\ ~(idx >= N) => next = p
    BY <1>1, <2>1
  <2>4. idx < N => ~(idx >= N) BY <1>2 DEF idx, N
  <2> QED BY <2>2, <2>3, <2>4 DEF z
<1>4. there <=> \E a \in 1 .. Len(q) : q[a].idx = idx
  <2>1. DOMAIN q = 1 .. Len(q) BY <1>1, SeqIsSequence
  <2> HIDE DEF q, idx
  <2> QED BY <2>1 DEF Range
<1> HIDE DEF there, f, q, o, next
<1>5. /\ [walk EXCEPT !.ok = FALSE] = Built(f, q, FALSE)
      /\ [walk EXCEPT !.files = Append(f, file)] = Built(Append(f, file), q, o)
      /\ [walk EXCEPT !.queue = Append(q, dir)] = Built(f, Append(q, dir), o)
  <2> DEFINE fs == Append(f, file)
             ds == Append(q, dir)
  <2> HIDE DEF fs, ds
  <2> DEFINE no == FALSE
  <2> HIDE DEF no
  <2>1. walk = ReadingBuilt(table, tree, f, q, o) BY <1>1
  <2>2. [walk EXCEPT !.ok = no] = ReadingBuilt(table, tree, f, q, no) BY ONLY <2>1, OkUpdated
  <2>3. [walk EXCEPT !.files = fs] = ReadingBuilt(table, tree, fs, q, o) BY ONLY <2>1, FilesUpdated
  <2>4. [walk EXCEPT !.queue = ds] = ReadingBuilt(table, tree, f, ds, o) BY ONLY <2>1, QueueUpdated
  <2>5. [walk EXCEPT !.ok = FALSE] = Built(f, q, FALSE) BY <2>2 DEF no
  <2> QED BY <2>3, <2>4, <2>5 DEF fs, ds
<1>6. ASSUME idx < N
      PROVE  /\ name \in V /\ path \in Seq(V) /\ file \in ListedFiles(table, tree)
             /\ entry.is_file \in BOOLEAN
             /\ ~entry.is_file => dir \in ListedDirs(table, tree)
  <2>1. idx + 1 \in 1 .. N
    <3> HIDE DEF idx, N
    <3> QED BY <1>2, <1>6
  <2>2. name \in V /\ entry.is_file \in BOOLEAN BY <2>1 DEF NamesRead
  <2>3. offset \in {FileOffset(tree[i]) : i \in 1 .. N} /\ size \in {FileSize(tree[i]) : i \in 1 .. N}
    BY <2>1
  <2>4. ~entry.is_file => idx \in DirIndices(tree) BY <1>2, <1>6 DEF DirIndices
  <2> HIDE DEF name, V, offset, size, idx, N, entry
  <2>5. path \in Seq(V) BY <1>2, <2>2, AppendedPath
  <2> HIDE DEF path
  <2>6. file \in ListedFiles(table, tree) BY <2>3, <2>5 DEF ListedFiles, V, N
  <2> HIDE DEF file
  <2>7. ~entry.is_file => dir \in ListedDirs(table, tree) BY <2>4, <2>5 DEF ListedDirs, V
  <2> QED BY <2>2, <2>5, <2>6, <2>7
<1> HIDE DEF file, dir, name, entry, idx, V, N, path
<1>7. CASE ~o
  <2>1. next = walk BY <1>3, <1>7
  <2> QED BY <1>1, <1>7, <2>1 DEF ListsChild, next, o
<1>8. CASE o /\ (idx >= N \/ name = NoName \/ (~entry.is_file /\ there))
  <2>1. next = Built(f, q, FALSE) BY <1>3, <1>5, <1>8
  <2>2. next \in Readings(table, tree) BY <1>1, <2>1, ReadingTyped
  <2>3. ListsChild(walk, child, next)
    <3>1. ~(idx < N) \/ name = NoName
            \/ (~entry.is_file /\ \E a \in 1 .. Len(q) : q[a].idx = idx)
      BY <1>2, <1>4, <1>8
    <3> QED BY <1>1, <1>8, <3>1 DEF ListsChild, o, q, idx, N, name, entry
  <2> QED BY <2>2, <2>3 DEF next
<1>9. CASE o /\ idx < N /\ name # NoName /\ entry.is_file
  <2>1. next = Built(Append(f, file), q, o) BY <1>3, <1>5, <1>9
  <2>2. Append(f, file) \in Seq(ListedFiles(table, tree)) BY <1>1, <1>6, <1>9, AppendProperties
  <2>3. /\ next \in Readings(table, tree) /\ next.ok /\ next.queue = q
        /\ next.files = Append(f, file)
    <3> DEFINE e == Append(f, file)
    <3>1. e \in Seq(ListedFiles(table, tree)) /\ next = ReadingBuilt(table, tree, e, q, o)
          /\ q \in Seq(ListedDirs(table, tree)) /\ o \in BOOLEAN
      BY <1>1, <2>1, <2>2
    <3> HIDE DEF e
    <3>2. /\ next \in Readings(table, tree) /\ next.files = e /\ next.queue = q /\ next.ok = o
      BY ONLY <3>1, ReadingTyped
    <3> QED BY <1>9, <3>2 DEF e
  <2>4. ListsChild(walk, child, next)
    BY <1>1, <1>9, <2>3 DEF ListsChild, o, q, f, idx, N, name, entry, file, path
  <2> QED BY <2>3, <2>4 DEF next
<1>10. CASE o /\ idx < N /\ name # NoName /\ ~entry.is_file /\ ~there
  <2>1. next = Built(f, Append(q, dir), o) BY <1>3, <1>5, <1>10
  <2>2. Append(q, dir) \in Seq(ListedDirs(table, tree)) BY <1>1, <1>6, <1>10, AppendProperties
  <2>3. /\ next \in Readings(table, tree) /\ next.ok /\ next.files = f
        /\ next.queue = Append(q, dir)
    <3> DEFINE e == Append(q, dir)
    <3>1. e \in Seq(ListedDirs(table, tree)) /\ next = ReadingBuilt(table, tree, f, e, o)
          /\ f \in Seq(ListedFiles(table, tree)) /\ o \in BOOLEAN
      BY <1>1, <2>1, <2>2
    <3> HIDE DEF e
    <3>2. /\ next \in Readings(table, tree) /\ next.files = f /\ next.queue = e /\ next.ok = o
      BY ONLY <3>1, ReadingTyped
    <3> QED BY <1>10, <3>2 DEF e
  <2>4. ListsChild(walk, child, next)
    BY <1>1, <1>10, <2>3 DEF ListsChild, o, q, f, idx, N, name, entry, dir, path
  <2> QED BY <2>3, <2>4 DEF next
<1>11. idx >= N \/ idx < N BY <1>2 DEF idx, N
<1>12. entry.is_file \in BOOLEAN \/ idx >= N BY <1>6, <1>11
<1> QED BY <1>1, <1>7, <1>8, <1>9, <1>10, <1>11, <1>12

\* The tables of a path tree.
IsArchived(table, tree, arena, key, order, l) ==
  /\ IsPathTree(arena, key)
  /\ IsBreadthFirst(arena, order, l)
  /\ IsTreeOf(tree, table, arena, order, l)

\* What an archived tree is typed as.
LEMMA TreeFields ==
  ASSUME NEW table, NEW tree, NEW arena, NEW key, NEW order, NEW l,
         IsArchived(table, tree, arena, key, order, l)
  PROVE  /\ Len(arena) \in Nat \ {0} /\ Len(tree) = Len(arena) /\ HasLen(tree, Len(tree))
         /\ \A i \in 1 .. Len(tree) : tree[i].is_file \in BOOLEAN
         /\ \A i \in 1 .. Len(arena) : order[i] \in 1 .. Len(arena)
         /\ \A i \in 2 .. Len(arena) :
              /\ order[i] \in 2 .. Len(arena)
              /\ ReadName(table, tree[i].name_offset) # NoName
         /\ \A k \in 0 .. Len(arena) : l[k] \in 1 .. Len(arena)
<1> DEFINE N == Len(arena)
<1>1. N \in Nat \ {0} /\ IsArena(arena) BY KidsAre DEF IsArchived, IsPathTree
<1>2. Len(tree) = N /\ HasLen(tree, Len(tree)) BY SequenceLength DEF IsArchived, IsTreeOf
<1>3. /\ \A i \in 1 .. N : order[i] \in 1 .. N
      /\ \A k \in 0 .. N : l[k] \in 1 .. N
      /\ order[1] = 1 /\ \A i, j \in 1 .. N : order[i] = order[j] => i = j
  BY DEF IsArchived, IsBreadthFirst
<1>4. /\ \A i \in 1 .. N : tree[i].is_file = arena[order[i]].is_file
      /\ \A i \in 2 .. N : ReadName(table, tree[i].name_offset) = Encoded[arena[order[i]].name]
  BY DEF IsArchived, IsTreeOf
<1>5. \A i \in 1 .. N : tree[i].is_file \in BOOLEAN BY <1>1, <1>3, <1>4, NodeFields
<1>6. \A n \in 2 .. N : arena[n].name \in FileNames BY DEF IsArchived, IsPathTree
<1> HIDE DEF N
<1>7. ASSUME NEW i \in 2 .. N
      PROVE  order[i] \in 2 .. N /\ ReadName(table, tree[i].name_offset) # NoName
  <2>1. i \in 1 .. N /\ i # 1 /\ 1 \in 1 .. N BY <1>1
  <2>2. order[i] \in 1 .. N /\ order[i] # 1 BY <1>3, <2>1
  <2>3. order[i] \in 2 .. N BY <1>1, <2>2
  <2>4. Encoded[arena[order[i]].name] # NoName BY <1>6, <2>3, ZarLayoutAssumption DEF FileNames
  <2> QED BY <1>4, <2>3, <2>4
<1> QED BY <1>1, <1>2, <1>3, <1>5, <1>7 DEF N

\* The node of the p-th entry is a child of node n.
IsChildPlace(arena, key, order, n, p) ==
  /\ p \in 2 .. Len(arena) /\ order[p] \in 2 .. Len(arena)
  /\ arena[order[p]].name \in FileNames
  /\ key[n] \in Keys
  /\ key[order[p]] = Append(key[n], Fold[arena[order[p]].name])

\* Where the children of a node are.
LEMMA ChildPlace ==
  ASSUME NEW table, NEW tree, NEW arena, NEW key, NEW order, NEW l,
         IsArchived(table, tree, arena, key, order, l),
         NEW k \in 1 .. Len(arena), NEW j \in 1 .. Len(arena[order[k]].children)
  PROVE  IsChildPlace(arena, key, order, order[k], l[k - 1] + j)
<1> DEFINE N == Len(arena)
           a == l[k - 1]
           b == l[k]
           n == order[k]
           m == Len(arena[n].children)
           p == a + j
           c == order[p]
<1>1. /\ N \in Nat \ {0} /\ n \in 1 .. N /\ a \in 1 .. N /\ b \in 1 .. N /\ IsArena(arena)
      /\ \A i \in 2 .. N : order[i] \in 2 .. N
  <2>1. k - 1 \in 0 .. N /\ k \in 0 .. N /\ k \in 1 .. N BY TreeFields
  <2>2. IsArena(arena) BY DEF IsArchived, IsPathTree
  <2> QED BY <2>1, <2>2, TreeFields
<1>2. b = a + m /\ c = SortedChildren(arena, n)[j] BY DEF IsArchived, IsBreadthFirst
<1>3. m \in Nat BY <1>1, NodeFields
<1>4. p \in 2 .. N
  <2> HIDE DEF a, b, m, n, N
  <2>1. j \in 1 .. m BY DEF m, n
  <2> QED BY <1>1, <1>2, <1>3, <2>1
<1>5. c \in 2 .. N
  <2> HIDE DEF p, N
  <2> QED BY <1>1, <1>4
<1>6. IsSorting(SortedChildren(arena, n), arena[n].children) BY <1>1, ChildrenSorted DEF IsArchived
<1>7. PICK i \in 1 .. m : SortedChildren(arena, n)[j] = arena[n].children[i] BY <1>6 DEF IsSorting
<1>8. key[arena[n].children[i]] = Append(key[n], Fold[arena[arena[n].children[i]].name])
  <2>1. ChildrenKeyed(arena, key) BY DEF IsArchived, IsPathTree
  <2> HIDE DEF n
  <2>2. n \in 1 .. Len(arena) /\ i \in 1 .. Len(arena[n].children) BY <1>1
  <2> QED BY ONLY <2>1, <2>2 DEF ChildrenKeyed
<1>9. c = arena[n].children[i] BY <1>2, <1>7
<1>10. key[c] = Append(key[n], Fold[arena[c].name])
  <2> HIDE DEF c, n
  <2> QED BY <1>8, <1>9
<1>11. arena[c].name \in FileNames /\ key[n] \in Keys
  <2> HIDE DEF c, n
  <2> QED BY <1>1, <1>5 DEF IsArchived, IsPathTree
<1> QED BY <1>4, <1>5, <1>10, <1>11 DEF IsChildPlace

\* A path as the archive spells it: every name one of those that fold to the
\* component, the last the one of the node.
IsSpelling(path, arena, key, n) ==
  /\ HasLen(path, Len(key[n])) /\ Len(path) = Len(key[n])
  /\ \A i \in 1 .. Len(key[n]) :
       \E name \in FileNames : Fold[name] = key[n][i] /\ path[i] = Encoded[name]
  /\ n # 1 => path[Len(key[n])] = Encoded[arena[n].name]

\* A spelling of a directory and one of a name in it spell the child.
LEMMA SpellingGrows ==
  ASSUME NEW arena, NEW key, NEW n, NEW c, NEW prefix, IsSpelling(prefix, arena, key, n),
         key[n] \in Keys, arena[c].name \in FileNames,
         key[c] = Append(key[n], Fold[arena[c].name])
  PROVE  IsSpelling(Append(prefix, Encoded[arena[c].name]), arena, key, c)
<1> DEFINE p == key[n]
           m == Len(p)
           name == arena[c].name
           e == Encoded[name]
           q == key[c]
           path == Append(prefix, e)
<1>1. HasLen(p, m) /\ m \in Nat BY SeqIsSequence DEF Keys, HasLen
<1>2. HasLen(prefix, m) BY DEF IsSpelling
<1>3. \A i \in 1 .. m : \E x \in FileNames : Fold[x] = p[i] /\ prefix[i] = Encoded[x] BY DEF IsSpelling
<1>4. name \in FileNames /\ q = Append(p, Fold[name]) OBVIOUS
<1> HIDE DEF p, m, e, q, name
<1>5. IsAppend(q, p, m, Fold[name]) /\ IsAppend(path, prefix, m, e) BY <1>1, <1>2, <1>4, SequenceAppend
<1> HIDE DEF path
<1>6. /\ HasLen(q, m + 1) /\ HasLen(path, m + 1)
      /\ \A i \in 1 .. m + 1 : q[i] = IF i <= m THEN p[i] ELSE Fold[name]
      /\ \A i \in 1 .. m + 1 : path[i] = IF i <= m THEN prefix[i] ELSE e
  BY <1>5 DEF IsAppend
<1>7. Len(q) = m + 1 /\ Len(path) = m + 1 BY <1>6, SequenceLength
<1>8. ASSUME NEW i \in 1 .. m + 1
      PROVE  \E x \in FileNames : Fold[x] = q[i] /\ path[i] = Encoded[x]
  <2>1. CASE i <= m
    <3>1. i \in 1 .. m BY <1>1, <2>1
    <3> QED BY <1>3, <1>6, <2>1, <3>1
  <2>2. CASE ~(i <= m) BY <1>4, <1>6, <2>2 DEF e
  <2> QED BY <2>1, <2>2
<1>9. path[m + 1] = e
  <2>1. m + 1 \in 1 .. m + 1 /\ ~(m + 1 <= m) BY <1>1
  <2> QED BY <1>6, <2>1
<1> QED BY <1>6, <1>7, <1>8, <1>9 DEF IsSpelling, q, e, name, path

\* The entries of directories, and of files.
DirEntries(tree) == {p \in 1 .. Len(tree) : ~tree[p].is_file}
FileEntries(tree) == {p \in 1 .. Len(tree) : tree[p].is_file}

\* The directories of the queue, and the files listed, are those of the first
\* x entries.
DirsListed(queue, dirs, tree, arena, key, order, x) ==
  /\ IsMarked(dirs, Len(queue), x, DirEntries(tree))
  /\ \A a \in 1 .. Len(queue) : /\ queue[a].idx = dirs[a] - 1
                                /\ IsSpelling(queue[a].prefix, arena, key, order[dirs[a]])

FilesListed(listing, from, tree, arena, key, order, x) ==
  /\ IsMarked(from, Len(listing), x, FileEntries(tree))
  /\ \A f \in 1 .. Len(listing) :
       /\ IsSpelling(listing[f].path, arena, key, order[from[f]])
       /\ listing[f].offset = FileOffset(tree[from[f]])
       /\ listing[f].size = FileSize(tree[from[f]])

IsListed(walk, dirs, from, tree, arena, key, order, x) ==
  /\ walk.ok
  /\ DirsListed(walk.queue, dirs, tree, arena, key, order, x)
  /\ FilesListed(walk.files, from, tree, arena, key, order, x)

\* A directory is queued behind those before it.
LEMMA DirListed ==
  ASSUME NEW queue, HasLen(queue, Len(queue)), NEW dirs, NEW tree, NEW arena, NEW key,
         NEW order, NEW x \in Nat, DirsListed(queue, dirs, tree, arena, key, order, x),
         x + 1 \in DirEntries(tree), NEW dir, dir.idx = x,
         IsSpelling(dir.prefix, arena, key, order[x + 1])
  PROVE  /\ \E more : DirsListed(Append(queue, dir), more, tree, arena, key, order, x + 1)
         /\ QueueGrows(queue, Append(queue, dir))
<1> DEFINE n == Len(queue)
           next == Append(queue, dir)
           more == [a \in 1 .. n + 1 |-> IF a <= n THEN dirs[a] ELSE x + 1]
           S == DirEntries(tree)
<1>1. /\ n \in Nat /\ HasLen(queue, n) /\ IsMarked(dirs, n, x, S)
      /\ \A a \in 1 .. n : /\ queue[a].idx = dirs[a] - 1
                           /\ IsSpelling(queue[a].prefix, arena, key, order[dirs[a]])
  BY DEF DirsListed, HasLen
<1>2. x + 1 \in S OBVIOUS
<1> HIDE DEF n, S, next
<1>3. /\ \A a \in 1 .. n : more[a] = dirs[a]
      /\ more[n + 1] = x + 1
  BY <1>1
<1>4. IsAppend(next, queue, n, dir) BY <1>1, SequenceAppend DEF next
<1>5. /\ HasLen(next, n + 1) /\ \A a \in 1 .. n : next[a] = queue[a]
      /\ next[n + 1] = dir
  <2>1. /\ \A a \in 1 .. n : a \in 1 .. n + 1 /\ a <= n
        /\ n + 1 \in 1 .. n + 1 /\ ~(n + 1 <= n)
    BY <1>1
  <2> QED BY <1>4, <2>1 DEF IsAppend
<1> HIDE DEF more
<1>6. Len(next) = n + 1 BY <1>5, SequenceLength
<1>7. IsMarked(more, n + 1, x + 1, S) BY <1>1, <1>2, <1>3, MarkAdded
<1>8. ASSUME NEW a \in 1 .. n + 1
      PROVE  next[a].idx = more[a] - 1 /\ IsSpelling(next[a].prefix, arena, key, order[more[a]])
  <2>1. CASE a \in 1 .. n BY <1>1, <1>3, <1>5, <2>1
  <2>2. CASE a = n + 1
    <3>1. next[a] = dir /\ more[a] = x + 1 BY <1>3, <1>5, <2>2
    <3> QED BY <3>1
  <2>3. a \in 1 .. n \/ a = n + 1 BY <1>1
  <2> QED BY <2>1, <2>2, <2>3
<1>9. DirsListed(next, more, tree, arena, key, order, x + 1) BY <1>6, <1>7, <1>8 DEF DirsListed, S
<1>10. QueueGrows(queue, next)
  <2>1. n + 1 \in Nat /\ n <= n + 1 BY <1>1
  <2> QED BY <1>1, <1>5, <1>6, <2>1 DEF QueueGrows, n
<1> QED BY <1>9, <1>10 DEF next

\* A file is listed behind those before it.
LEMMA FileListed ==
  ASSUME NEW listing, HasLen(listing, Len(listing)), NEW from, NEW tree, NEW arena, NEW key,
         NEW order, NEW x \in Nat, FilesListed(listing, from, tree, arena, key, order, x),
         x + 1 \in FileEntries(tree), NEW file,
         file.offset = FileOffset(tree[x + 1]), file.size = FileSize(tree[x + 1]),
         IsSpelling(file.path, arena, key, order[x + 1])
  PROVE  \E more : FilesListed(Append(listing, file), more, tree, arena, key, order, x + 1)
<1> DEFINE n == Len(listing)
           next == Append(listing, file)
           more == [a \in 1 .. n + 1 |-> IF a <= n THEN from[a] ELSE x + 1]
           S == FileEntries(tree)
           Good(f, p) == /\ IsSpelling(f.path, arena, key, order[p])
                         /\ f.offset = FileOffset(tree[p]) /\ f.size = FileSize(tree[p])
<1>1. /\ n \in Nat /\ HasLen(listing, n) /\ IsMarked(from, n, x, S)
      /\ \A a \in 1 .. n : Good(listing[a], from[a])
  BY DEF FilesListed, HasLen
<1>2. x + 1 \in S /\ Good(file, x + 1) OBVIOUS
<1> HIDE DEF n, S, next, Good
<1>3. /\ \A a \in 1 .. n : more[a] = from[a]
      /\ more[n + 1] = x + 1
  BY <1>1
<1>4. IsAppend(next, listing, n, file) BY <1>1, SequenceAppend DEF next
<1>5. /\ HasLen(next, n + 1) /\ \A a \in 1 .. n : next[a] = listing[a]
      /\ next[n + 1] = file
  <2>1. /\ \A a \in 1 .. n : a \in 1 .. n + 1 /\ a <= n
        /\ n + 1 \in 1 .. n + 1 /\ ~(n + 1 <= n)
    BY <1>1
  <2> QED BY <1>4, <2>1 DEF IsAppend
<1> HIDE DEF more
<1>6. Len(next) = n + 1 BY <1>5, SequenceLength
<1>7. IsMarked(more, n + 1, x + 1, S) BY <1>1, <1>2, <1>3, MarkAdded
<1>8. ASSUME NEW a \in 1 .. n + 1
      PROVE  Good(next[a], more[a])
  <2>1. CASE a \in 1 .. n BY <1>1, <1>3, <1>5, <2>1
  <2>2. CASE a = n + 1 BY <1>2, <1>3, <1>5, <2>2
  <2>3. a \in 1 .. n \/ a = n + 1 BY <1>1
  <2> QED BY <2>1, <2>2, <2>3
<1>9. FilesListed(next, more, tree, arena, key, order, x + 1) BY <1>6, <1>7, <1>8 DEF FilesListed, S, Good
<1> QED BY <1>9 DEF next

\* One child of the k-th entry further.
LEMMA ListStep ==
  ASSUME NEW table, NEW tree, NEW arena, NEW key, NEW order, NEW l,
         IsArchived(table, tree, arena, key, order, l),
         NEW k \in 1 .. Len(arena), NEW j \in 1 .. Len(arena[order[k]].children),
         NEW x, l[k - 1] + j = x + 1, NEW walk \in Readings(table, tree), NEW dirs, NEW from,
         IsListed(walk, dirs, from, tree, arena, key, order, x),
         NEW child \in Children(table, tree), child.idx = x,
         IsSpelling(child.prefix, arena, key, order[k])
  PROVE  LET next == ListChild(walk, child) IN
         /\ next \in Readings(table, tree)
         /\ \E d, f : IsListed(next, d, f, tree, arena, key, order, x + 1)
         /\ QueueGrows(walk.queue, next.queue)
<1> DEFINE N == Len(arena)
           p == x + 1
           entry == tree[p]
           name == ReadName(table, entry.name_offset)
           path == Append(child.prefix, name)
           c == order[p]
           q == walk.queue
           f == walk.files
           next == ListChild(walk, child)
           file == [path |-> path, offset |-> FileOffset(entry), size |-> FileSize(entry)]
           dir == [idx |-> x, prefix |-> path]
<1>1. /\ N \in Nat \ {0} /\ Len(tree) = N /\ HasLen(tree, N)
      /\ \A i \in 1 .. N : tree[i].is_file \in BOOLEAN
      /\ \A i \in 2 .. N : ReadName(table, tree[i].name_offset) # NoName
  BY TreeFields
<1>2. /\ p \in 2 .. N /\ c \in 2 .. N /\ arena[c].name \in FileNames
      /\ key[order[k]] \in Keys /\ key[c] = Append(key[order[k]], Fold[arena[c].name])
  <2>1. IsChildPlace(arena, key, order, order[k], l[k - 1] + j) BY ChildPlace
  <2>2. IsChildPlace(arena, key, order, order[k], p) BY <2>1
  <2> QED BY <2>2 DEF IsChildPlace
<1>3. x \in Nat /\ x < N
  <2>1. x \in Nat BY DEF Children
  <2> HIDE DEF N
  <2> QED BY <1>1, <1>2, <2>1
<1>4. /\ walk.table = table /\ walk.tree = tree /\ walk.ok
      /\ HasLen(q, Len(q)) /\ HasLen(f, Len(f))
      /\ DirsListed(q, dirs, tree, arena, key, order, x)
      /\ FilesListed(f, from, tree, arena, key, order, x)
  BY ReadingFields, SeqIsSequence DEF IsListed
<1>5. name = Encoded[arena[c].name] /\ name # NoName /\ entry.is_file \in BOOLEAN
  <2>1. IsTreeOf(tree, table, arena, order, l) /\ p \in 1 .. N BY <1>1, <1>2 DEF IsArchived
  <2> QED BY <1>1, <1>2, <2>1 DEF IsTreeOf
<1>6. IsSpelling(path, arena, key, c)
  <2> HIDE DEF c, name
  <2> QED BY <1>2, <1>5, SpellingGrows
<1>7. next \in Readings(table, tree) /\ ListsChild(walk, child, next) BY <1>1, ListChildIs
<1>8. \A a \in 1 .. Len(q) : q[a].idx # x
  <2> SUFFICES ASSUME NEW a \in 1 .. Len(q), q[a].idx = x PROVE FALSE OBVIOUS
  <2>1. dirs[a] \in 1 .. x /\ q[a].idx = dirs[a] - 1 BY <1>4 DEF DirsListed, IsMarked
  <2> QED BY <1>3, <2>1
<1> HIDE DEF next, q, f, p, N
<1>9. /\ next.ok
      /\ entry.is_file => next.queue = q /\ next.files = Append(f, file)
      /\ ~entry.is_file => next.files = f /\ next.queue = Append(q, dir)
  <2>1. child.idx = x /\ child.idx + 1 = p /\ child.idx < Len(walk.tree) BY <1>1, <1>3, <1>4 DEF p
  <2>2. \A a \in 1 .. Len(walk.queue) : walk.queue[a].idx # child.idx BY <1>8 DEF q
  <2> HIDE DEF entry, name
  <2> QED BY <1>4, <1>5, <1>7, <2>1, <2>2 DEF ListsChild, entry, name, q, f
<1>10. p \in 1 .. Len(tree) BY <1>1, <1>2
<1> HIDE DEF c, path
<1>11. CASE entry.is_file
  <2>1. p \in FileEntries(tree) /\ p \notin DirEntries(tree) BY <1>10, <1>11 DEF FileEntries, DirEntries
  <2>2. \E more : FilesListed(Append(f, file), more, tree, arena, key, order, p)
    <3>1. file.path = path /\ file.offset = FileOffset(entry) /\ file.size = FileSize(entry) OBVIOUS
    <3> HIDE DEF file
    <3> QED BY <1>3, <1>4, <1>6, <2>1, <3>1, FileListed DEF p, c
  <2>3. DirsListed(q, dirs, tree, arena, key, order, p)
    <3>1. IsMarked(dirs, Len(q), x, DirEntries(tree)) BY <1>4 DEF DirsListed
    <3>2. IsMarked(dirs, Len(q), p, DirEntries(tree)) BY <1>3, <2>1, <3>1, MarkSkipped DEF p
    <3> QED BY <1>4, <3>2 DEF DirsListed
  <2>4. QueueGrows(q, q) BY <1>4 DEF QueueGrows, HasLen
  <2>5. PICK more : FilesListed(Append(f, file), more, tree, arena, key, order, p) BY <2>2
  <2> HIDE DEF file
  <2>6. IsListed(next, dirs, more, tree, arena, key, order, p) BY <1>9, <1>11, <2>3, <2>5 DEF IsListed
  <2> QED BY <1>7, <1>9, <1>11, <2>4, <2>6 DEF next, q, p
<1>12. CASE ~entry.is_file
  <2>1. p \notin FileEntries(tree) /\ p \in DirEntries(tree) BY <1>10, <1>12 DEF FileEntries, DirEntries
  <2>2. /\ \E more : DirsListed(Append(q, dir), more, tree, arena, key, order, p)
        /\ QueueGrows(q, Append(q, dir))
    <3>1. dir.prefix = path /\ dir.idx = x OBVIOUS
    <3> HIDE DEF dir
    <3> QED BY <1>3, <1>4, <1>6, <2>1, <3>1, DirListed DEF p, c
  <2>3. FilesListed(f, from, tree, arena, key, order, p)
    <3>1. IsMarked(from, Len(f), x, FileEntries(tree)) BY <1>4 DEF FilesListed
    <3>2. IsMarked(from, Len(f), p, FileEntries(tree)) BY <1>3, <2>1, <3>1, MarkSkipped DEF p
    <3> QED BY <1>4, <3>2 DEF FilesListed
  <2>4. PICK more : DirsListed(Append(q, dir), more, tree, arena, key, order, p) BY <2>2
  <2> HIDE DEF dir
  <2>5. IsListed(next, more, from, tree, arena, key, order, p) BY <1>9, <1>12, <2>3, <2>4 DEF IsListed
  <2> QED BY <1>7, <1>9, <1>12, <2>2, <2>5 DEF next, q, p
<1> QED BY <1>11, <1>12

\* The entries of the directory with the p-th entry.
ChildrenFrom(first, m, prefix) == [k \in 1 .. m |-> [idx |-> first + k - 1, prefix |-> prefix]]

\* The entries of a directory are those of the children of its node.
LEMMA DirectoryIs ==
  ASSUME NEW table, NEW tree, NEW arena, NEW key, NEW order, NEW l,
         IsArchived(table, tree, arena, key, order, l), NEW dir \in ListedDirs(table, tree)
  PROVE  LET p == dir.idx + 1
             first == tree[p].words[1]
             m == tree[p].words[2]
         IN /\ p \in 1 .. Len(arena) /\ first = l[p - 1] /\ first \in 1 .. Len(arena)
            /\ m \in Nat /\ m = Len(arena[order[p]].children) /\ l[p] = l[p - 1] + m
            /\ HasLen(ChildrenFrom(first, m, dir.prefix), m)
            /\ \A k \in 1 .. m :
                 LET child == ChildrenFrom(first, m, dir.prefix)[k] IN
                 /\ child \in Children(table, tree)
                 /\ child.idx = first + k - 1 /\ child.prefix = dir.prefix
<1> DEFINE N == Len(arena)
           p == dir.idx + 1
           first == tree[p].words[1]
           m == tree[p].words[2]
           e == ChildrenFrom(first, m, dir.prefix)
           V == NamesRead(table, tree)
<1>1. /\ N \in Nat \ {0} /\ Len(tree) = N
      /\ \A i \in 1 .. N : order[i] \in 1 .. N
      /\ \A k \in 0 .. N : l[k] \in 1 .. N
  BY TreeFields
<1>2. /\ dir.idx \in Nat /\ dir.idx < N /\ ~tree[p].is_file /\ dir.prefix \in Seq(V)
  BY <1>1 DEF ListedDirs, DirIndices
<1>3. p \in 1 .. N /\ p - 1 \in 0 .. N
  <2> HIDE DEF N
  <2> QED BY <1>1, <1>2
<1>4. first = l[p - 1] /\ m = Len(arena[order[p]].children) BY <1>2, <1>3 DEF IsArchived, IsTreeOf
<1>5. m \in Nat /\ l[p] = l[p - 1] + m
  <2>1. IsArena(arena) /\ order[p] \in 1 .. N BY <1>1, <1>3 DEF IsArchived, IsPathTree
  <2>2. \A n \in 1 .. N : Len(arena[n].children) \in Nat BY <2>1, NodeFields
  <2>3. l[p] = l[p - 1] + Len(arena[order[p]].children) BY <1>3 DEF IsArchived, IsBreadthFirst
  <2> HIDE DEF m, p, N
  <2> QED BY <1>4, <2>1, <2>2, <2>3
<1>6. first \in 1 .. N BY <1>1, <1>3, <1>4
<1> HIDE DEF m, first, N, p
<1>7. HasLen(e, m) /\ \A k \in 1 .. m : e[k] = [idx |-> first + k - 1, prefix |-> dir.prefix]
  BY <1>5 DEF ChildrenFrom, HasLen
<1> HIDE DEF e
<1>8. ASSUME NEW k \in 1 .. m
      PROVE  /\ e[k] \in Children(table, tree)
             /\ e[k].idx = first + k - 1 /\ e[k].prefix = dir.prefix
  <2> DEFINE i == first + k - 1
  <2>1. i \in Nat BY <1>1, <1>5, <1>6
  <2>2. e[k] = [idx |-> i, prefix |-> dir.prefix] BY <1>7
  <2> HIDE DEF i
  <2>3. e[k] \in Children(table, tree) /\ e[k].idx = i /\ e[k].prefix = dir.prefix
    BY <1>2, <2>1, <2>2 DEF Children
  <2> QED BY <2>3 DEF i
<1> QED BY <1>3, <1>4, <1>5, <1>6, <1>7, <1>8 DEF N, m, first, p, e

\* The i-th directory of the queue is listed if there is one.
LEMMA ListDirectoryIs ==
  ASSUME NEW table, NEW tree, NEW arena, NEW key, NEW order, NEW l,
         IsArchived(table, tree, arena, key, order, l),
         NEW i \in Nat \ {0}, NEW walk \in Readings(table, tree)
  PROVE  LET next == ListDirectory(walk, i)
             p == walk.queue[i].idx + 1
         IN /\ next \in Readings(table, tree)
            /\ ~(walk.ok /\ i <= Len(walk.queue)) => next = walk
            /\ i <= Len(walk.queue) => \A dirs, from :
                   /\ IsListed(walk, dirs, from, tree, arena, key, order, l[p - 1])
                   /\ IsSpelling(walk.queue[i].prefix, arena, key, order[p])
                   => /\ \E d, f : IsListed(next, d, f, tree, arena, key, order, l[p])
                      /\ QueueGrows(walk.queue, next.queue)
<1> DEFINE S == Readings(table, tree)
           q == walk.queue
           dir == q[i]
           p == dir.idx + 1
           first == tree[p].words[1]
           m == tree[p].words[2]
           e == ChildrenFrom(first, m, dir.prefix)
           next == ListDirectory(walk, i)
           at == l[p - 1]
<1>1. /\ walk.table = table /\ walk.tree = tree /\ q \in Seq(ListedDirs(table, tree)) BY ReadingFields
<1>2. next = IF walk.ok /\ i <= Len(q) THEN FoldLeft(ListChild, walk, e) ELSE walk
  <2>1. next = IF walk.ok /\ i <= Len(walk.queue)
               THEN FoldLeft(ListChild, walk,
                             [k \in 1 .. walk.tree[walk.queue[i].idx + 1].words[2] |->
                                [idx |-> walk.tree[walk.queue[i].idx + 1].words[1] + k - 1,
                                 prefix |-> walk.queue[i].prefix]])
               ELSE walk
    BY DEF ListDirectory
  <2> QED BY <1>1, <2>1 DEF ChildrenFrom
<1>3. CASE ~(i <= Len(q)) BY <1>2, <1>3
<1>4. CASE i <= Len(q)
  <2>1. dir \in ListedDirs(table, tree)
    <3>1. i \in 1 .. Len(q) BY <1>1, <1>4
    <3> QED BY <1>1, <3>1, SeqIsSequence
  <2>2. /\ p \in 1 .. Len(arena) /\ first = at /\ at \in 1 .. Len(arena)
        /\ m \in Nat /\ m = Len(arena[order[p]].children) /\ l[p] = at + m
        /\ HasLen(e, m)
        /\ \A k \in 1 .. m : /\ e[k] \in Children(table, tree)
                             /\ e[k].idx = first + k - 1 /\ e[k].prefix = dir.prefix
    <3> HIDE DEF dir
    <3> QED BY <2>1, DirectoryIs
  <2>3. HasLen(tree, Len(tree)) /\ \A n \in 1 .. Len(tree) : tree[n].is_file \in BOOLEAN BY TreeFields
  <2> HIDE DEF S, e, m, first, next, at, p, dir, q
  <2>4. \A k \in 1 .. m : \A x \in S : ListChild(x, e[k]) \in S BY <2>2, <2>3, ListChildIs DEF S
  <2>5. walk \in S BY DEF S
  <2>6. PICK run : IsListChildRun(run, walk, e, m, S) /\ FoldLeft(ListChild, walk, e) = run[m]
    <3>1. HasLen(e, m) BY <2>2
    <3> QED BY ONLY <3>1, <2>4, <2>5, ListChildRun
  <2>7. /\ \A k \in 0 .. m : run[k] \in S
        /\ run[0] = walk
        /\ \A k \in 1 .. m : run[k] = ListChild(run[k - 1], e[k])
    BY <2>6 DEF IsListChildRun
  <2>8. next \in S
    <3>1. m \in 0 .. m BY <2>2
    <3> QED BY <1>2, <2>5, <2>6, <2>7, <3>1
  <2>9. ASSUME NEW dirs, NEW from, IsListed(walk, dirs, from, tree, arena, key, order, at),
               IsSpelling(dir.prefix, arena, key, order[p])
        PROVE  /\ \E d, f : IsListed(next, d, f, tree, arena, key, order, l[p])
               /\ QueueGrows(q, next.queue)
    <3> DEFINE Reached(k) == /\ \E d, f : IsListed(run[k], d, f, tree, arena, key, order, at + k)
                             /\ QueueGrows(q, run[k].queue)
               D == {k \in Nat : k <= m => Reached(k)}
    <3>1. 0 \in D
      <4>1. at + 0 = at BY <2>2
      <4>2. QueueGrows(q, q) BY <1>1, SeqIsSequence DEF QueueGrows, HasLen
      <4>3. IsListed(run[0], dirs, from, tree, arena, key, order, at + 0) BY <2>7, <2>9, <4>1
      <4>4. QueueGrows(q, run[0].queue) BY <2>7, <4>2 DEF q
      <4> QED BY <4>3, <4>4
    <3>2. ASSUME NEW k \in Nat, k \in D PROVE k + 1 \in D
      <4> SUFFICES ASSUME k + 1 <= m PROVE Reached(k + 1) OBVIOUS
      <4>1. k \in 0 .. m /\ k + 1 \in 1 .. m /\ (k + 1) - 1 = k /\ Reached(k) BY <2>2, <3>2
      <4>2. PICK d, f : IsListed(run[k], d, f, tree, arena, key, order, at + k) BY <4>1
      <4> DEFINE x == at + k
                 j == k + 1
                 child == e[k + 1]
                 y == run[k]
                 z == run[k + 1]
      <4>3. child \in Children(table, tree) /\ child.idx = x /\ child.prefix = dir.prefix
        <5>1. first + (k + 1) - 1 = at + k BY <2>2
        <5> QED BY <2>2, <4>1, <5>1
      <4>4. j \in 1 .. Len(arena[order[p]].children) /\ at + j = x + 1 BY <2>2, <4>1
      <4>5. y \in Readings(table, tree) /\ z = ListChild(y, child) BY <2>7, <4>1 DEF S
      <4>6. IsListed(y, d, f, tree, arena, key, order, x) BY <4>2
      <4>7. IsSpelling(child.prefix, arena, key, order[p]) BY <2>9, <4>3
      <4>8. x + 1 = at + (k + 1) BY <2>2
      <4>9. l[p - 1] + j = x + 1 /\ p \in 1 .. Len(arena) BY <2>2, <4>4 DEF at
      <4> HIDE DEF x, j, child, y, z
      <4>10. /\ \E d2, f2 : IsListed(z, d2, f2, tree, arena, key, order, x + 1)
             /\ QueueGrows(y.queue, z.queue)
        BY ONLY IsArchived(table, tree, arena, key, order, l), <4>3, <4>4, <4>5, <4>6, <4>7,
           <4>9, ListStep
      <4>11. QueueGrows(q, z.queue)
        <5>1. QueueGrows(q, y.queue) BY <4>1 DEF y
        <5> QED BY <4>10, <5>1, GrowsFurther
      <4> QED BY <4>8, <4>10, <4>11 DEF z
    <3>3. Nat \subseteq D
      <4> HIDE DEF D
      <4> QED BY <3>1, <3>2, NatInduct
    <3>4. Reached(m)
      <4> HIDE DEF Reached
      <4> QED BY <2>2, <3>3
    <3>5. walk.ok BY <2>9 DEF IsListed
    <3>6. next = run[m] BY <1>2, <1>4, <2>6, <3>5
    <3> QED BY <2>2, <3>4, <3>6
  <2>10. ~walk.ok => next = walk BY <1>2
  <2> QED BY <1>4, <2>8, <2>9, <2>10 DEF S, next, at, p, dir, q
<1> QED BY <1>3, <1>4

FilesOnly(tree, a, b) == \A k \in a .. b : tree[k].is_file

\* Files have no children.
LEMMA FilesBetween ==
  ASSUME NEW table, NEW tree, NEW arena, NEW key, NEW order, NEW l,
         IsArchived(table, tree, arena, key, order, l),
         NEW c \in 0 .. Len(arena), NEW y \in c .. Len(arena), FilesOnly(tree, c + 1, y)
  PROVE  l[y] = l[c]
<1> DEFINE N == Len(arena)
           Same(d) == c + d <= y => l[c + d] = l[c]
           D == {d \in Nat : Same(d)}
<1>1. /\ N \in Nat \ {0} /\ \A k \in 0 .. N : l[k] \in 1 .. N
      /\ \A i \in 1 .. N : order[i] \in 1 .. N
  BY TreeFields
<1>2. ASSUME NEW k \in 1 .. N, tree[k].is_file PROVE l[k] = l[k - 1]
  <2>1. l[k] = l[k - 1] + Len(arena[order[k]].children) BY DEF IsArchived, IsBreadthFirst
  <2>2. arena[order[k]].is_file /\ order[k] \in 1 .. N BY <1>1, <1>2 DEF IsArchived, IsTreeOf
  <2>3. Len(arena[order[k]].children) = 0 BY <2>2 DEF IsArchived, IsPathTree, ChildrenKeyed
  <2>4. l[k - 1] \in 1 .. N BY <1>1
  <2> QED BY <2>1, <2>3, <2>4
<1> HIDE DEF N
<1>3. c \in Nat /\ y \in Nat /\ c <= y /\ y <= N BY <1>1 DEF N
<1>4. 0 \in D
  <2>1. c + 0 = c BY <1>3
  <2> QED BY <2>1
<1>5. ASSUME NEW d \in Nat, d \in D PROVE d + 1 \in D
  <2> SUFFICES ASSUME c + (d + 1) <= y PROVE l[c + (d + 1)] = l[c] OBVIOUS
  <2> DEFINE k == c + (d + 1)
  <2>1. k \in c + 1 .. y /\ k \in 1 .. N /\ k - 1 = c + d /\ l[c + d] = l[c] BY <1>1, <1>3, <1>5
  <2> HIDE DEF k
  <2>2. l[k] = l[k - 1] BY <1>2, <2>1 DEF FilesOnly
  <2> QED BY <2>1, <2>2 DEF k
<1>6. Nat \subseteq D
  <2> HIDE DEF D
  <2> QED BY <1>4, <1>5, NatInduct
<1>7. y - c \in Nat /\ c + (y - c) = y BY <1>3
<1>8. Same(y - c)
  <2> HIDE DEF Same
  <2> QED BY <1>6, <1>7
<1> QED BY <1>3, <1>7, <1>8

\* The directories of the first x entries, in order.
DirMarks(dirs, n, tree, x) ==
  /\ \A a \in 1 .. n : dirs[a] \in 1 .. x
  /\ \A a, b \in 1 .. n : a < b => dirs[a] < dirs[b]
  /\ \A p \in 1 .. x : tree[p].is_file \/ \E a \in 1 .. n : dirs[a] = p

\* The marks of a listed queue.
LEMMA QueueMarks ==
  ASSUME NEW table, NEW tree, NEW arena, NEW key, NEW order, NEW l,
         IsArchived(table, tree, arena, key, order, l),
         NEW walk, NEW dirs, NEW from, NEW x \in 1 .. Len(arena),
         IsListed(walk, dirs, from, tree, arena, key, order, x),
         \A a \in 1 .. Len(walk.queue) : walk.queue[a].idx \in Nat
  PROVE  /\ Len(walk.queue) \in Nat \ {0}
         /\ DirMarks(dirs, Len(walk.queue), tree, x)
         /\ \A a \in 1 .. Len(walk.queue) :
              /\ dirs[a] \in 1 .. x /\ dirs[a] = walk.queue[a].idx + 1
              /\ IsSpelling(walk.queue[a].prefix, arena, key, order[dirs[a]])
<1> DEFINE n == Len(walk.queue)
           N == Len(arena)
<1>1. N \in Nat \ {0} /\ Len(tree) = N BY TreeFields
<1>2. /\ IsMarked(dirs, n, x, DirEntries(tree))
      /\ \A a \in 1 .. n : /\ walk.queue[a].idx = dirs[a] - 1
                           /\ IsSpelling(walk.queue[a].prefix, arena, key, order[dirs[a]])
  BY DEF IsListed, DirsListed
<1>3. /\ n \in Nat /\ \A a \in 1 .. n : dirs[a] \in 1 .. x
      /\ \A a, b \in 1 .. n : a < b => dirs[a] < dirs[b]
      /\ \A p \in 1 .. x : p \in DirEntries(tree) => \E a \in 1 .. n : dirs[a] = p
  BY <1>2 DEF IsMarked
<1>4. x \in 1 .. N /\ \A p \in 1 .. x : p \in 1 .. Len(tree) BY <1>1
<1>5. \A p \in 1 .. x : tree[p].is_file \/ \E a \in 1 .. n : dirs[a] = p BY <1>3, <1>4 DEF DirEntries
<1>6. ~tree[1].is_file
  <2>1. 1 \in 1 .. N BY <1>1
  <2> QED BY <2>1 DEF IsArchived, IsTreeOf, IsBreadthFirst, IsPathTree
<1>7. \E a \in 1 .. n : dirs[a] = 1
  <2>1. 1 \in 1 .. x BY <1>4, <1>1
  <2> QED BY <1>5, <1>6, <2>1
<1>8. n # 0 BY <1>3, <1>7
<1>9. \A a \in 1 .. n : dirs[a] = walk.queue[a].idx + 1
  <2> SUFFICES ASSUME NEW a \in 1 .. n PROVE dirs[a] = walk.queue[a].idx + 1 OBVIOUS
  <2>1. walk.queue[a].idx = dirs[a] - 1 /\ dirs[a] \in 1 .. x BY <1>2, <1>3
  <2> HIDE DEF n
  <2> QED BY <1>4, <2>1
<1> QED BY <1>2, <1>3, <1>5, <1>8, <1>9 DEF DirMarks

\* The last entry whose children are listed, of the i-th directory.
IsCursor(c, queue, l, N, i) ==
  /\ c \in 0 .. N
  /\ \/ i = 0 /\ c = 0
     \/ i \in 1 .. Len(queue) /\ c = queue[i].idx + 1
     \/ i > Len(queue) /\ l[c] = N

\* The next directory of the queue begins where the last one listed ended.
LEMMA NextDirectory ==
  ASSUME NEW table, NEW tree, NEW arena, NEW key, NEW order, NEW l,
         IsArchived(table, tree, arena, key, order, l),
         NEW c \in 0 .. Len(arena), NEW n \in Nat, NEW dirs, NEW i \in 0 .. n - 1,
         DirMarks(dirs, n, tree, l[c]), (i = 0 /\ c = 0) \/ (i # 0 /\ c = dirs[i])
  PROVE  l[dirs[i + 1] - 1] = l[c]
<1> USE DEF DirMarks
<1> DEFINE N == Len(arena)
           x == l[c]
           p == dirs[i + 1]
<1>1. N \in Nat \ {0} /\ x \in 1 .. N /\ i \in Nat /\ i + 1 \in 1 .. n /\ c \in Nat BY TreeFields
<1>2. p \in 1 .. x BY <1>1
<1>3. c < p
  <2>1. CASE i = 0 BY <1>1, <1>2, <2>1
  <2>2. CASE i # 0
    <3>1. i \in 1 .. n /\ i < i + 1 BY <1>1, <2>2
    <3> QED BY <1>1, <2>2, <3>1
  <2> QED BY <2>1, <2>2
<1> HIDE DEF x, p, N
<1>4. p - 1 \in c .. N BY <1>1, <1>2, <1>3
<1>5. ASSUME NEW k \in c + 1 .. p - 1 PROVE tree[k].is_file
  <2>1. k \in 1 .. x /\ c < k /\ k < p BY <1>1, <1>2, <1>3
  <2> SUFFICES ASSUME ~tree[k].is_file PROVE FALSE OBVIOUS
  <2>2. PICK a \in 1 .. n : dirs[a] = k BY <2>1 DEF x
  <2>3. a < i + 1
    <3> SUFFICES ASSUME ~(a < i + 1) PROVE FALSE OBVIOUS
    <3>1. a = i + 1 \/ i + 1 < a BY <1>1
    <3>2. a = i + 1 \/ dirs[i + 1] < dirs[a] BY <1>1, <3>1
    <3> QED BY <2>1, <2>2, <3>2, <1>2, <1>1 DEF p
  <2>4. i # 0 /\ (a = i \/ a < i) /\ i \in 1 .. n BY <1>1, <2>3
  <2>5. dirs[a] = dirs[i] \/ dirs[a] < dirs[i] BY <2>4
  <2>6. c = dirs[i] BY <2>4
  <2> QED BY <2>1, <2>2, <2>5, <2>6, <1>1
<1>6. l[p - 1] = l[c]
  <2>1. FilesOnly(tree, c + 1, p - 1) BY <1>5 DEF FilesOnly
  <2> QED BY <1>4, <2>1, FilesBetween DEF N
<1> QED BY <1>6 DEF p

\* Behind the last directory there are no entries.
LEMMA LastDirectory ==
  ASSUME NEW table, NEW tree, NEW arena, NEW key, NEW order, NEW l,
         IsArchived(table, tree, arena, key, order, l),
         NEW c \in 1 .. Len(arena), NEW n \in Nat \ {0}, NEW dirs,
         DirMarks(dirs, n, tree, l[c]), c = dirs[n]
  PROVE  l[c] = Len(arena)
<1> USE DEF DirMarks
<1> DEFINE N == Len(arena)
           x == l[c]
<1>1. N \in Nat \ {0} /\ x \in 1 .. N /\ c \in Nat /\ n \in 1 .. n BY TreeFields
<1>2. c <= x BY <1>1
<1> HIDE DEF x, N
<1>3. ASSUME NEW k \in c + 1 .. x PROVE tree[k].is_file
  <2> SUFFICES ASSUME ~tree[k].is_file PROVE FALSE OBVIOUS
  <2>1. k \in 1 .. x /\ c < k BY <1>1
  <2>2. PICK a \in 1 .. n : dirs[a] = k BY <2>1 DEF x
  <2>3. a = n \/ a < n OBVIOUS
  <2>4. dirs[a] = dirs[n] \/ dirs[a] < dirs[n] BY <1>1, <2>3
  <2> QED BY <1>1, <2>1, <2>2, <2>4
<1>4. l[x] = x
  <2>1. c \in 0 .. N /\ x \in c .. N BY <1>1, <1>2
  <2> QED
    <3>1. FilesOnly(tree, c + 1, x) BY <1>3 DEF FilesOnly
    <3>2. l[x] = l[c] BY <2>1, <3>1, FilesBetween DEF N
    <3> QED BY <3>2 DEF x
<1>5. ASSUME x # N PROVE FALSE
  <2>1. x + 1 \in 1 .. N /\ (x + 1) - 1 = x BY <1>1, <1>5
  <2>2. x + 1 <= l[(x + 1) - 1] BY <2>1 DEF IsArchived, IsBreadthFirst, N
  <2> QED BY <1>1, <1>4, <2>1, <2>2
<1> QED BY <1>5 DEF x, N

\* What is listed after i directories.
Listing(walk, tree, arena, key, order, l, i) ==
  \E c, dirs, from : /\ IsCursor(c, walk.queue, l, Len(arena), i)
                     /\ IsListed(walk, dirs, from, tree, arena, key, order, l[c])

\* One turn of build_files() takes the entries of the next directory.
LEMMA ListingStep ==
  ASSUME NEW table, NEW tree, NEW arena, NEW key, NEW order, NEW l,
         IsArchived(table, tree, arena, key, order, l), NEW walk \in Readings(table, tree),
         NEW i \in Nat, Listing(walk, tree, arena, key, order, l, i)
  PROVE  Listing(ListDirectory(walk, i + 1), tree, arena, key, order, l, i + 1)
<1> DEFINE N == Len(arena)
           q == walk.queue
           n == Len(q)
           next == ListDirectory(walk, i + 1)
<1>1. PICK c, dirs, from : /\ IsCursor(c, q, l, N, i)
                           /\ IsListed(walk, dirs, from, tree, arena, key, order, l[c])
  BY DEF Listing
<1>2. N \in Nat \ {0} /\ c \in 0 .. N /\ l[c] \in 1 .. N /\ walk.ok
  BY <1>1, TreeFields DEF IsCursor, IsListed
<1>3. q \in Seq(ListedDirs(table, tree)) /\ \A a \in 1 .. n : q[a].idx \in Nat
  <2>1. q \in Seq(ListedDirs(table, tree)) BY ReadingFields
  <2>2. \A a \in 1 .. n : q[a] \in ListedDirs(table, tree) BY <2>1, SeqIsSequence
  <2> QED BY <2>1, <2>2 DEF ListedDirs, DirIndices
<1>4. /\ n \in Nat \ {0} /\ DirMarks(dirs, n, tree, l[c])
      /\ \A a \in 1 .. n : /\ dirs[a] \in 1 .. l[c] /\ dirs[a] = q[a].idx + 1
                           /\ IsSpelling(q[a].prefix, arena, key, order[dirs[a]])
  BY <1>1, <1>2, <1>3, QueueMarks
<1> HIDE DEF next, N, n
<1>5. CASE i + 1 <= n
  <2> DEFINE p == dirs[i + 1]
             j == i + 1
  <2>1. i \in 0 .. n - 1 /\ j \in 1 .. n /\ j \in Nat \ {0} /\ j <= n BY <1>4, <1>5
  <2>2. (i = 0 /\ c = 0) \/ (i # 0 /\ c = dirs[i])
    <3>1. ~(i > n) BY <1>4, <1>5
    <3>2. (i = 0 /\ c = 0) \/ (i \in 1 .. n /\ c = q[i].idx + 1) BY <1>1, <3>1 DEF IsCursor, n
    <3> QED BY <1>4, <3>2
  <2>3. l[p - 1] = l[c]
    <3>1. n \in Nat BY <1>4
    <3> QED BY <1>2, <1>4, <2>1, <2>2, <3>1, NextDirectory DEF N
  <2>4. /\ p = q[j].idx + 1 /\ p \in 1 .. l[c]
        /\ IsSpelling(q[j].prefix, arena, key, order[p])
    BY <1>4, <2>1
  <2>5. /\ \E d, f : IsListed(next, d, f, tree, arena, key, order, l[p])
        /\ QueueGrows(q, next.queue)
    <3>1. IsListed(walk, dirs, from, tree, arena, key, order, l[p - 1]) BY <1>1, <2>3
    <3> HIDE DEF p
    <3>2. /\ IsListed(walk, dirs, from, tree, arena, key, order, l[(q[j].idx + 1) - 1])
          /\ IsSpelling(q[j].prefix, arena, key, order[q[j].idx + 1])
      BY <2>4, <3>1
    <3>3. j <= Len(walk.queue) BY <2>1 DEF n
    <3> HIDE DEF j
    <3>4. /\ \E d, f : IsListed(ListDirectory(walk, j), d, f, tree, arena, key, order, l[q[j].idx + 1])
          /\ QueueGrows(q, ListDirectory(walk, j).queue)
      BY <2>1, <3>2, <3>3, ListDirectoryIs
    <3> QED BY <2>4, <3>4 DEF next, j
  <2>6. j \in 1 .. Len(next.queue) /\ next.queue[j] = q[j] BY <2>1, <2>5 DEF QueueGrows, n
  <2>7. IsCursor(p, next.queue, l, N, j)
    <3>1. p \in 0 .. N BY <1>2, <2>4
    <3> HIDE DEF p, j
    <3> QED BY <2>4, <2>6, <3>1 DEF IsCursor
  <2> QED BY <2>5, <2>7 DEF Listing, N, next
<1>6. CASE ~(i + 1 <= n)
  <2>1. next = walk
    <3>1. i + 1 \in Nat \ {0} OBVIOUS
    <3>2. ~(walk.ok /\ i + 1 <= Len(walk.queue)) BY <1>6 DEF n
    <3> QED BY <3>1, <3>2, ListDirectoryIs DEF next
  <2>2. l[c] = N
    <3>1. CASE i > n
      <4>1. ~(i \in 1 .. n) /\ i # 0 BY <1>4, <3>1
      <4> QED BY <1>1, <4>1 DEF IsCursor, n
    <3>2. CASE ~(i > n)
      <4>1. i = n /\ i # 0 /\ n \in 1 .. n BY <1>4, <1>6, <3>2
      <4>2. c = q[n].idx + 1 BY <1>1, <4>1, <3>2 DEF IsCursor, n
      <4>3. c = dirs[n] BY <1>4, <4>1, <4>2
      <4>4. c \in 1 .. N
        <5>1. c \in 1 .. l[c] BY <1>4, <4>1, <4>3
        <5> QED BY <1>2, <5>1
      <4> QED BY <1>4, <4>3, <4>4, LastDirectory DEF N
    <3> QED BY <3>1, <3>2
  <2>3. i + 1 > n BY <1>4, <1>6
  <2>4. IsCursor(c, q, l, N, i + 1) BY <1>2, <2>2, <2>3 DEF IsCursor, n
  <2> QED BY <1>1, <2>1, <2>4 DEF Listing, N, next
<1> QED BY <1>5, <1>6

\* All is listed after as many steps as there are entries.
LEMMA ListingEnds ==
  ASSUME NEW table, NEW tree, NEW arena, NEW key, NEW order, NEW l,
         IsArchived(table, tree, arena, key, order, l), NEW walk \in Readings(table, tree),
         Listing(walk, tree, arena, key, order, l, Len(arena))
  PROVE  \E dirs, from : IsListed(walk, dirs, from, tree, arena, key, order, Len(arena))
<1> DEFINE N == Len(arena)
           q == walk.queue
           n == Len(q)
<1>1. PICK c, dirs, from : /\ IsCursor(c, q, l, N, N)
                           /\ IsListed(walk, dirs, from, tree, arena, key, order, l[c])
  BY DEF Listing
<1>2. N \in Nat \ {0} /\ c \in 0 .. N /\ l[c] \in 1 .. N BY <1>1, TreeFields DEF IsCursor
<1>3. \A a \in 1 .. n : q[a].idx \in Nat
  <2>1. q \in Seq(ListedDirs(table, tree)) BY ReadingFields
  <2>2. \A a \in 1 .. n : q[a] \in ListedDirs(table, tree) BY <2>1, SeqIsSequence
  <2> QED BY <2>2 DEF ListedDirs, DirIndices
<1>4. /\ n \in Nat \ {0} /\ DirMarks(dirs, n, tree, l[c])
      /\ \A a \in 1 .. n : dirs[a] \in 1 .. l[c] /\ dirs[a] = q[a].idx + 1
      /\ \A a, b \in 1 .. n : a < b => dirs[a] < dirs[b]
  BY <1>1, <1>2, <1>3, QueueMarks DEF DirMarks
<1> HIDE DEF N, n
<1>5. l[c] = N
  <2>1. CASE N > n
    <3>1. ~(N \in 1 .. n) /\ N # 0 BY <1>2, <1>4, <2>1
    <3> QED BY <1>1, <3>1 DEF IsCursor, n
  <2>2. CASE ~(N > n)
    <3>1. n <= N
      <4>1. \A a, b \in 1 .. n : dirs[a] = dirs[b] => a = b
        <5> SUFFICES ASSUME NEW a \in 1 .. n, NEW b \in 1 .. n, dirs[a] = dirs[b], a # b
            PROVE  FALSE
          OBVIOUS
        <5>1. a < b \/ b < a OBVIOUS
        <5>2. dirs[a] \in 1 .. l[c] /\ dirs[b] \in 1 .. l[c] BY <1>4
        <5> QED BY <1>2, <1>4, <5>1, <5>2
      <4>2. \A a \in 1 .. n : dirs[a] \in 1 .. N BY <1>2, <1>4
      <4>3. n \in Nat /\ N \in Nat BY <1>2, <1>4
      <4> QED BY ONLY <4>1, <4>2, <4>3, CountInjective
    <3>2. N = n /\ n \in 1 .. n BY <1>2, <1>4, <2>2, <3>1
    <3>3. c = q[n].idx + 1 BY <1>1, <1>2, <2>2, <3>2 DEF IsCursor, n
    <3>4. c = dirs[n] /\ c \in 1 .. N
      <4>1. c = dirs[n] /\ c \in 1 .. l[c] BY <1>4, <3>2, <3>3
      <4> QED BY <1>2, <4>1
    <3> QED BY <1>4, <3>4, LastDirectory DEF N
  <2> QED BY <2>1, <2>2
<1> QED BY <1>1, <1>5 DEF N

\* The walk begins with the root.
LEMMA ListingBegins ==
  ASSUME NEW table, NEW tree, NEW arena, NEW key, NEW order, NEW l,
         IsArchived(table, tree, arena, key, order, l), NEW ok, ok = TRUE
  PROVE  LET base == ReadingBuilt(table, tree, <<>>, <<[idx |-> 0, prefix |-> <<>>]>>, ok) IN
         base \in Readings(table, tree) /\ Listing(base, tree, arena, key, order, l, 0)
<1> DEFINE N == Len(arena)
           root == [idx |-> 0, prefix |-> <<>>]
           q == <<root>>
           base == ReadingBuilt(table, tree, <<>>, q, ok)
           V == NamesRead(table, tree)
           one == [a \in 1 .. 1 |-> 1]
<1>1. /\ N \in Nat \ {0} /\ Len(tree) = N /\ order[1] = 1 /\ l[0] = 1 /\ key[1] = <<>>
      /\ ~tree[1].is_file
  <2>1. N \in Nat \ {0} /\ Len(tree) = N BY TreeFields
  <2>2. 1 \in 1 .. N BY <2>1
  <2> QED BY <2>1, <2>2 DEF IsArchived, IsTreeOf, IsBreadthFirst, IsPathTree
<1>2. <<>> \in Seq(V) /\ <<>> \in Seq(ListedFiles(table, tree)) /\ Len(<<>>) = 0
      /\ HasLen(<<>>, 0)
  BY DEF HasLen
<1>3. root \in ListedDirs(table, tree)
  <2>1. 0 \in DirIndices(tree) BY <1>1 DEF DirIndices
  <2> QED BY <1>2, <2>1 DEF ListedDirs
<1>4. root.idx = 0 /\ root.prefix = <<>> OBVIOUS
<1> HIDE DEF root
<1>5. q \in Seq(ListedDirs(table, tree)) /\ Len(q) = 1 /\ q[1] = root BY <1>3
<1> HIDE DEF q
<1>6. /\ base \in Readings(table, tree) /\ base.queue = q /\ base.files = <<>> /\ base.ok
  <2> DEFINE e == <<>>
  <2>1. e \in Seq(ListedFiles(table, tree)) /\ base = ReadingBuilt(table, tree, e, q, ok)
        /\ ok \in BOOLEAN
    BY <1>2
  <2> HIDE DEF e
  <2>2. base \in Readings(table, tree) /\ base.queue = q /\ base.files = e /\ base.ok = ok
    <3>1. q \in Seq(ListedDirs(table, tree)) /\ e \in Seq(ListedFiles(table, tree)) BY <1>5, <2>1
    <3>2. /\ ReadingBuilt(table, tree, e, q, ok) \in Readings(table, tree)
          /\ ReadingBuilt(table, tree, e, q, ok).queue = q
      BY ONLY <3>1, <2>1, ReadingTyped
    <3>3. ReadingBuilt(table, tree, e, q, ok).files = e BY ONLY <3>1, <2>1, ReadingTyped
    <3>4. ReadingBuilt(table, tree, e, q, ok).ok = ok BY ONLY <3>1, <2>1, ReadingTyped
    <3> QED BY <2>1, <3>2, <3>3, <3>4
  <2> QED BY <2>2 DEF e
<1> HIDE DEF base
<1>7. DirsListed(q, one, tree, arena, key, order, 1)
  <2>1. one[1] = 1 /\ 1 \in DirEntries(tree) /\ 1 - 1 = 0 BY <1>1 DEF DirEntries
  <2>2. \A a \in 1 .. 1 : a = 1 OBVIOUS
  <2>3. IsMarked(one, 1, 1, DirEntries(tree)) BY <2>1, <2>2 DEF IsMarked
  <2>4. IsSpelling(<<>>, arena, key, 1) BY <1>1, <1>2 DEF IsSpelling
  <2> HIDE DEF one
  <2> QED BY <1>1, <1>4, <1>5, <2>1, <2>2, <2>3, <2>4 DEF DirsListed
<1>8. FilesListed(<<>>, <<>>, tree, arena, key, order, 1)
  <2>1. 1 \notin FileEntries(tree) BY <1>1 DEF FileEntries
  <2>2. IsMarked(<<>>, 0, 1, FileEntries(tree)) BY <2>1 DEF IsMarked
  <2> QED BY <1>2, <2>2 DEF FilesListed
<1>9. IsListed(base, one, <<>>, tree, arena, key, order, l[0]) BY <1>1, <1>6, <1>7, <1>8 DEF IsListed
<1>10. IsCursor(0, base.queue, l, N, 0) BY <1>1 DEF IsCursor
<1>11. Listing(base, tree, arena, key, order, l, 0) BY <1>9, <1>10 DEF Listing
<1> QED BY <1>6, <1>11 DEF base, q, root

\* All entries are listed.
LEMMA ListingSound ==
  ASSUME NEW table, NEW tree, NEW arena, NEW key, NEW order, NEW l,
         IsArchived(table, tree, arena, key, order, l)
  PROVE  /\ BuildFiles(table, tree) \in Readings(table, tree)
         /\ \E dirs, from :
              IsListed(BuildFiles(table, tree), dirs, from, tree, arena, key, order, Len(arena))
<1> DEFINE N == Len(arena)
           S == Readings(table, tree)
           ok == tree # <<>> /\ ~tree[1].is_file
           base == ReadingBuilt(table, tree, <<>>, <<[idx |-> 0, prefix |-> <<>>]>>, ok)
           elements == [i \in DOMAIN tree |-> i]
<1>1. /\ N \in Nat \ {0} /\ Len(tree) = N /\ HasLen(tree, N) /\ DOMAIN tree = 1 .. N
  <2>1. N \in Nat \ {0} /\ Len(tree) = N /\ HasLen(tree, Len(tree)) BY TreeFields
  <2> QED BY <2>1, SequenceLength
<1>2. ok = TRUE
  <2>1. 1 \in 1 .. N BY <1>1
  <2>2. ~tree[1].is_file BY <2>1 DEF IsArchived, IsTreeOf, IsBreadthFirst, IsPathTree
  <2>3. tree # <<>>
    <3> HIDE DEF N
    <3> QED BY <1>1, <2>1
  <2> QED BY <2>2, <2>3
<1>3. BuildFiles(table, tree) = FoldLeft(ListDirectory, base, elements) BY DEF BuildFiles, ReadingBuilt
<1> HIDE DEF ok
<1>4. base \in S /\ Listing(base, tree, arena, key, order, l, 0) BY <1>2, ListingBegins
<1> HIDE DEF base
<1>5. HasLen(elements, N) /\ \A i \in 1 .. N : elements[i] = i BY <1>1 DEF HasLen
<1> HIDE DEF elements, N
<1>6. \A k \in 1 .. N : \A x \in S : ListDirectory(x, elements[k]) \in S BY <1>1, <1>5, ListDirectoryIs
<1> HIDE DEF S
<1>7. PICK run : IsListDirectoryRun(run, base, elements, N, S)
    /\ FoldLeft(ListDirectory, base, elements) = run[N]
  BY <1>4, <1>5, <1>6, ListDirectoryRun
<1>8. /\ \A k \in 0 .. N : run[k] \in S
      /\ run[0] = base
      /\ \A k \in 1 .. N : run[k] = ListDirectory(run[k - 1], k)
  BY <1>5, <1>7 DEF IsListDirectoryRun
<1> DEFINE Reached(i) == i <= N => Listing(run[i], tree, arena, key, order, l, i)
           D == {i \in Nat : Reached(i)}
<1>9. 0 \in D BY <1>4, <1>8
<1>10. ASSUME NEW i \in Nat, i \in D PROVE i + 1 \in D
  <2> SUFFICES ASSUME i + 1 <= N PROVE Listing(run[i + 1], tree, arena, key, order, l, i + 1) OBVIOUS
  <2>1. i \in 0 .. N /\ i + 1 \in 1 .. N /\ (i + 1) - 1 = i
        /\ Listing(run[i], tree, arena, key, order, l, i)
    BY <1>1, <1>10
  <2>2. run[i] \in Readings(table, tree) /\ run[i + 1] = ListDirectory(run[i], i + 1) BY <1>8, <2>1 DEF S
  <2> DEFINE x == run[i]
             y == run[i + 1]
  <2> HIDE DEF x, y
  <2>3. x \in Readings(table, tree) /\ y = ListDirectory(x, i + 1)
        /\ Listing(x, tree, arena, key, order, l, i)
    BY <2>1, <2>2 DEF x, y
  <2>4. Listing(ListDirectory(x, i + 1), tree, arena, key, order, l, i + 1) BY <2>3, ListingStep
  <2> QED BY <2>3, <2>4 DEF y
<1>11. Nat \subseteq D
  <2> HIDE DEF D
  <2> QED BY <1>9, <1>10, NatInduct
<1>12. Listing(run[N], tree, arena, key, order, l, N)
  <2>1. Reached(N)
    <3> HIDE DEF Reached
    <3> QED BY <1>1, <1>11
  <2> QED BY <1>1, <2>1
<1>13. run[N] \in S
  <2>1. N \in 0 .. N BY <1>1
  <2> QED BY <1>8, <2>1
<1>14. \E dirs, from : IsListed(run[N], dirs, from, tree, arena, key, order, N)
  BY <1>12, <1>13, ListingEnds DEF S, N
<1> QED BY <1>3, <1>7, <1>13, <1>14 DEF S, N

\* Every file is listed once, spelled as it should be, with its size and place.
RoundTrip(list, listing) ==
  /\ HasLen(listing, Len(list))
  /\ \E from \in [DOMAIN listing -> DOMAIN list] :
       /\ \A i, j \in DOMAIN listing : from[i] = from[j] => i = j
       /\ \A i \in DOMAIN listing :
            /\ Spelled(listing[i].path, list[from[i]].path)
            /\ listing[i].size = list[from[i]].size
            /\ listing[i].offset = FileStart(list, from[i])

\* A spelling of the node of a file.
LEMMA SpellingOfFile ==
  ASSUME NEW arena, NEW key, NEW n \in 2 .. Len(arena), NEW original \in Seq(FileNames),
         original # <<>>, key[n] = Folded(original), arena[n].name = Last(original),
         NEW path, IsSpelling(path, arena, key, n)
  PROVE  Spelled(path, original)
<1> DEFINE m == Len(original)
<1>1. /\ m \in Nat /\ Len(Folded(original)) = m /\ DOMAIN original = 1 .. m
      /\ \A i \in 1 .. m : Folded(original)[i] = Fold[original[i]]
  BY FoldedKey
<1>2. Len(key[n]) = m BY <1>1
<1>3. /\ HasLen(path, m) /\ Len(path) = m
      /\ \A i \in 1 .. m : \E name \in FileNames : Fold[name] = key[n][i] /\ path[i] = Encoded[name]
      /\ path[m] = Encoded[arena[n].name]
  BY <1>2 DEF IsSpelling
<1>4. DOMAIN path = 1 .. m BY <1>3, SequenceLength
<1>5. Last(path) = Encoded[Last(original)] BY <1>3 DEF Last
<1>6. \A i \in DOMAIN path : \E name \in DOMAIN Fold : /\ Fold[name] = Fold[original[i]]
                                                       /\ path[i] = Encoded[name]
  <2> SUFFICES ASSUME NEW i \in 1 .. m
      PROVE  \E name \in DOMAIN Fold : /\ Fold[name] = Fold[original[i]]
                                       /\ path[i] = Encoded[name]
    BY <1>4
  <2>1. PICK name \in FileNames : Fold[name] = key[n][i] /\ path[i] = Encoded[name] BY <1>3
  <2>2. key[n][i] = Fold[original[i]] BY <1>1
  <2> QED BY <2>1, <2>2 DEF FileNames
<1> QED BY <1>3, <1>5, <1>6 DEF Spelled

\* A listing of all entries is the listing the archive was built from.
LEMMA FilesRoundTrip ==
  ASSUME NEW list \in Seq(FileEntry),
         NEW table, NEW tree, NEW arena, NEW key, NEW order, NEW l,
         IsArchived(table, tree, arena, key, order, l), NEW node,
         FilesHeld(arena, key, list, node, Len(list)),
         \A f \in 1 .. Len(list) : list[f].path # <<>>,
         NEW walk \in Readings(table, tree), NEW dirs, NEW from,
         IsListed(walk, dirs, from, tree, arena, key, order, Len(arena))
  PROVE  RoundTrip(list, walk.files)
<1> DEFINE N == Len(arena)
           M == Len(list)
           listing == walk.files
           n == Len(listing)
<1>1. /\ N \in Nat \ {0} /\ Len(tree) = N /\ M \in Nat
      /\ \A x \in 1 .. N : order[x] \in 1 .. N
      /\ \A x, y \in 1 .. N : order[x] = order[y] => x = y
      /\ \A c \in 1 .. N : \E x \in 1 .. N : order[x] = c
      /\ \A x \in 1 .. N : tree[x].is_file = arena[order[x]].is_file
  <2>1. N \in Nat \ {0} /\ Len(tree) = N BY TreeFields
  <2>2. M \in Nat BY SeqIsSequence
  <2>3. IsBreadthFirst(arena, order, l) /\ IsTreeOf(tree, table, arena, order, l) BY DEF IsArchived
  <2>4. /\ \A x \in 1 .. N : order[x] \in 1 .. N
        /\ \A x, y \in 1 .. N : order[x] = order[y] => x = y
        /\ \A c \in 1 .. N : \E x \in 1 .. N : order[x] = c
    BY <2>3 DEF IsBreadthFirst
  <2>5. \A x \in 1 .. N : tree[x].is_file = arena[order[x]].is_file BY <2>3 DEF IsTreeOf
  <2> QED BY <2>1, <2>2, <2>4, <2>5
<1>2. HasLen(listing, n) /\ DOMAIN listing = 1 .. n /\ n \in Nat
  BY ReadingFields, SeqIsSequence DEF HasLen
<1>3. /\ IsMarked(from, n, N, FileEntries(tree))
      /\ \A f \in 1 .. n : /\ IsSpelling(listing[f].path, arena, key, order[from[f]])
                           /\ listing[f].offset = FileOffset(tree[from[f]])
                           /\ listing[f].size = FileSize(tree[from[f]])
  BY DEF IsListed, FilesListed
<1>4. /\ \A f \in 1 .. n : from[f] \in 1 .. N /\ tree[from[f]].is_file
      /\ \A a, b \in 1 .. n : a < b => from[a] < from[b]
      /\ \A p \in 1 .. N : tree[p].is_file => \E f \in 1 .. n : from[f] = p
  BY <1>1, <1>3 DEF IsMarked, FileEntries
<1>5. /\ \A f \in 1 .. M : /\ node[f] \in 2 .. N
                           /\ arena[node[f]].is_file
                           /\ key[node[f]] = Folded(list[f].path)
                           /\ arena[node[f]].name = Last(list[f].path)
                           /\ arena[node[f]].file_offset = FileStart(list, f)
                           /\ arena[node[f]].file_size = list[f].size
      /\ \A f, g \in 1 .. M : node[f] = node[g] => f = g
      /\ \A c \in 1 .. N : arena[c].is_file => \E f \in 1 .. M : node[f] = c
  BY DEF FilesHeld
<1>6. \A x \in 1 .. N : tree[x].is_file => /\ FileOffset(tree[x]) = arena[order[x]].file_offset
                                           /\ FileSize(tree[x]) = arena[order[x]].file_size
  BY DEF IsArchived, IsTreeOf
<1>7. \A f \in 1 .. M : list[f].path \in Seq(FileNames) /\ list[f].path # <<>>
  <2>1. \A f \in 1 .. M : list[f] \in FileEntry BY SeqIsSequence
  <2> QED BY <2>1 DEF FileEntry, FileNames
<1> HIDE DEF N, M, n, listing
<1> DEFINE g == [i \in 1 .. n |-> CHOOSE f \in 1 .. M : node[f] = order[from[i]]]
<1>8. ASSUME NEW i \in 1 .. n
      PROVE  g[i] \in 1 .. M /\ node[g[i]] = order[from[i]]
  <2>1. from[i] \in 1 .. N /\ tree[from[i]].is_file BY <1>4
  <2>2. order[from[i]] \in 1 .. N /\ arena[order[from[i]]].is_file BY <1>1, <2>1
  <2>3. \E f \in 1 .. M : node[f] = order[from[i]] BY <1>5, <2>2
  <2> QED BY <2>3
<1> HIDE DEF g
<1>9. \A i, j \in 1 .. n : g[i] = g[j] => i = j
  <2> SUFFICES ASSUME NEW i \in 1 .. n, NEW j \in 1 .. n, g[i] = g[j], i # j PROVE FALSE OBVIOUS
  <2>1. order[from[i]] = order[from[j]] BY <1>8
  <2>2. from[i] = from[j] /\ from[i] \in 1 .. N /\ from[j] \in 1 .. N BY <1>1, <1>4, <2>1
  <2>3. i < j \/ j < i BY <1>2
  <2>4. from[i] < from[j] \/ from[j] < from[i] BY <1>4, <2>3
  <2>5. N \in Nat BY <1>1
  <2> QED BY ONLY <2>2, <2>4, <2>5
<1>10. n = M
  <2>1. n <= M
    <3>1. \A i \in 1 .. n : g[i] \in 1 .. M BY <1>8
    <3> QED BY ONLY <1>2, <1>1, <1>9, <3>1, CountInjective
  <2>2. \A f \in 1 .. M : \E i \in 1 .. n : g[i] = f
    <3> SUFFICES ASSUME NEW f \in 1 .. M PROVE \E i \in 1 .. n : g[i] = f OBVIOUS
    <3>1. node[f] \in 1 .. N /\ arena[node[f]].is_file
      <4>1. node[f] \in 2 .. N /\ arena[node[f]].is_file BY <1>5
      <4> QED BY <1>1, <4>1
    <3>2. PICK x \in 1 .. N : order[x] = node[f] BY <1>1, <3>1
    <3>3. tree[x].is_file BY <1>1, <3>1, <3>2
    <3>4. PICK i \in 1 .. n : from[i] = x BY <1>4, <3>3
    <3>5. g[i] \in 1 .. M /\ node[g[i]] = node[f] BY <1>8, <3>2, <3>4
    <3> QED BY <1>5, <3>5
  <2>3. M <= n
    <3>1. n \in Nat /\ M \in Nat BY <1>1, <1>2
    <3> QED BY ONLY <3>1, <2>2, CountOnto
  <2> QED BY <1>1, <1>2, <2>1, <2>3
<1>11. ASSUME NEW i \in 1 .. n
    PROVE  /\ Spelled(listing[i].path, list[g[i]].path)
           /\ listing[i].size = list[g[i]].size
           /\ listing[i].offset = FileStart(list, g[i])
  <2> DEFINE c == order[from[i]]
             f == g[i]
  <2>1. f \in 1 .. M /\ node[f] = c /\ from[i] \in 1 .. N /\ tree[from[i]].is_file BY <1>4, <1>8
  <2>2. /\ c \in 2 .. N /\ key[c] = Folded(list[f].path) /\ arena[c].name = Last(list[f].path)
        /\ arena[c].file_offset = FileStart(list, f) /\ arena[c].file_size = list[f].size
    BY <1>5, <2>1
  <2>3. IsSpelling(listing[i].path, arena, key, c) BY <1>3
  <2>4. listing[i].offset = arena[c].file_offset /\ listing[i].size = arena[c].file_size
    BY <1>3, <1>6, <2>1
  <2> HIDE DEF c, f
  <2>5. Spelled(listing[i].path, list[f].path) BY <1>7, <2>1, <2>2, <2>3, SpellingOfFile DEF N
  <2> QED BY <2>2, <2>4, <2>5 DEF f
<1>12. g \in [DOMAIN listing -> DOMAIN list]
  <2>1. DOMAIN list = 1 .. M BY SeqIsSequence DEF M
  <2>2. g \in [1 .. n -> 1 .. M] BY <1>8 DEF g
  <2> QED BY <1>2, <2>1, <2>2
<1>13. /\ \A i, j \in DOMAIN listing : g[i] = g[j] => i = j
       /\ \A i \in DOMAIN listing : /\ Spelled(listing[i].path, list[g[i]].path)
                                    /\ listing[i].size = list[g[i]].size
                                    /\ listing[i].offset = FileStart(list, g[i])
  BY <1>2, <1>9, <1>11
<1>14. HasLen(listing, M) BY <1>2, <1>10
<1> QED BY <1>12, <1>13, <1>14 DEF RoundTrip, M, listing

-----------------------------------------------------------------------------
(* The steps of advance() that emit a section                                *)

SectionPhases == {"AlignPad", "OffsetRecords", "NameTable", "FileTree", "Footer", "Done"}

\* What they all do.
SectionKept(to, len, kind, what) ==
  /\ InputInv' /\ ArchiveInv' /\ BlocksInv' /\ RecordsInv' /\ CallInv' /\ PlanInv'
  /\ phase' = to
  /\ total_emitted' = total_emitted + len
  /\ Len(archive) \in Nat /\ Len(archive') \in Nat /\ Len(archive) <= Len(archive')
  /\ \A i \in 1 .. Len(archive) : archive'[i] = archive[i]
  /\ len # 0 => \E i \in 1 .. Len(archive') :
                  archive'[i] = [at |-> total_emitted, len |-> len, kind |-> kind, what |-> what]
  /\ name_table_bytes' = name_table_bytes /\ file_tree_bytes' = file_tree_bytes
  /\ offset_records' = offset_records

\* A step that ends a section keeps what all of them keep.
LEMMA SectionStep ==
  ASSUME WriterInv, NEW from \in SectionPhases, NEW to \in SectionPhases, NEW what, NEW len \in Nat,
         Section(from, to, what, len)
  PROVE  SectionKept(to, len, from, what)
<1>1. /\ InputInv /\ ArchiveInv /\ BlocksInv /\ RecordsInv /\ CallInv /\ PlanInv BY DEF WriterInv
<1>2. /\ phase = from /\ phase' = to /\ files' = files /\ name_table_bytes' = name_table_bytes
      /\ file_tree_bytes' = file_tree_bytes /\ total_input_bytes' = total_input_bytes
      /\ current_file' = current_file /\ current_file_pos' = current_file_pos
      /\ block_buffer' = block_buffer /\ blocks_written' = blocks_written
      /\ offset_records' = offset_records /\ call' = call /\ throws' = throws /\ written' = written
      /\ IF len = 0 THEN UNCHANGED <<archive, pending_output, total_emitted>>
                    ELSE Emit(from, what, len)
  BY DEF Section, planVars
<1>3. ~BeforeFlush /\ ~BeforeFlush' /\ phase # "refused" /\ phase' # "refused" /\ phase' \in Phases
  BY <1>2 DEF BeforeFlush, SectionPhases, Phases
<1>4. /\ SourceSize' = SourceSize /\ SourceBytes' = SourceBytes
      /\ \A b : BlockOf(b)' = BlockOf(b)
  BY <1>2, SourceStays
<1>5. InputInv' BY <1>1, <1>2, <1>3, <1>4 DEF InputInv
<1>6. /\ ArchiveInv' /\ Len(archive) \in Nat /\ Len(archive') \in Nat /\ Len(archive) <= Len(archive')
      /\ total_emitted' = total_emitted + len /\ pending_output' = pending_output + len
      /\ \A i \in 1 .. Len(archive) : archive'[i] = archive[i]
      /\ len # 0 => \E i \in 1 .. Len(archive') :
                      archive'[i] = [at |-> total_emitted, len |-> len, kind |-> from, what |-> what]
  <2>1. Len(archive) \in Nat /\ total_emitted \in Nat /\ pending_output \in Nat
    BY <1>1 DEF ArchiveInv, HasLen, CallInv
  <2>2. CASE len = 0
    <3>1. archive' = archive /\ total_emitted' = total_emitted /\ pending_output' = pending_output
      BY <1>2, <2>2
    <3>2. ArchiveInv' BY <1>1, <3>1 DEF ArchiveInv
    <3> QED BY <2>1, <2>2, <3>1, <3>2
  <2>3. CASE len # 0
    <3>1. ArchiveInv' /\ IsEmitted(len, from, what) BY <1>1, <1>2, <2>3, Emitted
    <3>2. Len(archive) + 1 \in 1 .. Len(archive') BY <2>1, <3>1 DEF IsEmitted
    <3> QED BY <2>1, <3>1, <3>2 DEF IsEmitted
  <2> QED BY <2>2, <2>3
<1>7. BlocksInv'
  <2>1. /\ blocks_written <= Len(archive) /\ blocks_written \in Nat
        /\ \A b \in 1 .. blocks_written :
             /\ archive[b].what = BlockOf(b - 1)
             /\ archive[b].len <= BlockBytes
             /\ archive[b].kind = IF archive[b].len = BlockBytes THEN "raw" ELSE "zstd"
    BY <1>1 DEF BlocksInv, InputInv
  <2>2. \A b \in 1 .. blocks_written : archive'[b] = archive[b] BY <1>6, <2>1
  <2>3. blocks_written <= Len(archive') BY <1>6, <2>1
  <2> QED BY <1>2, <1>3, <1>4, <2>1, <2>2, <2>3 DEF BlocksInv
<1>8. RecordsInv'
  <2>1. \A r \in 1 .. Len(offset_records) : \A i \in 1 .. Len(offset_records[r].sizes) :
      archive'[(r - 1) * EntriesPerRecord + i] = archive[(r - 1) * EntriesPerRecord + i]
    BY <1>1, <1>6, RecordsStay DEF BlocksInv, InputInv
  <2>2. ASSUME NEW r \in 1 .. Len(offset_records)
        PROVE  IsRecord(archive', offset_records[r], (r - 1) * EntriesPerRecord)
    <3>1. IsRecord(archive, offset_records[r], (r - 1) * EntriesPerRecord) BY <1>1 DEF RecordsInv
    <3>2. 1 \in 1 .. Len(offset_records[r].sizes) BY <3>1 DEF IsRecord
    <3> DEFINE a == (r - 1) * EntriesPerRecord
    <3>3. IsRecord(archive, offset_records[r], a)
        /\ \A i \in 1 .. Len(offset_records[r].sizes) : archive'[a + i] = archive[a + i]
      BY <2>1, <3>1
    <3> HIDE DEF a
    <3>4. IsRecord(archive', offset_records[r], a) BY <3>2, <3>3 DEF IsRecord
    <3> QED BY <3>4 DEF a
  <2> QED BY <1>1, <1>2, <2>2 DEF RecordsInv
<1>9. CallInv' BY <1>1, <1>2, <1>3, <1>6 DEF CallInv, ArchiveInv
<1>10. PlanInv'
  <2> DEFINE tree == PathTree(files)
  <2>1. ~(phase = "refused" <=> ~tree.ok) \/ (phase' = "refused" <=> ~tree.ok) BY <1>3
  <2> QED BY <1>1, <1>2, <1>3, <2>1 DEF PlanInv
<1> QED BY <1>2, <1>5, <1>6, <1>7, <1>8, <1>9, <1>10 DEF SectionKept

\* What was there stays.
LEMMA SectionHolds ==
  ASSUME WriterInv, NEW to, NEW len \in Nat, NEW kind, NEW what, SectionKept(to, len, kind, what),
         NEW span \in SpanSet, NEW held, InSpan(archive, total_emitted, span, held)
  PROVE  InSpan(archive', total_emitted', span, held)
<1>1. /\ total_emitted \in Nat /\ total_emitted' = total_emitted + len
      /\ Len(archive) \in Nat /\ Len(archive') \in Nat /\ Len(archive) <= Len(archive')
      /\ \A i \in 1 .. Len(archive) : archive'[i] = archive[i]
  BY DEF WriterInv, ArchiveInv, SectionKept
<1>2. InSpan(archive', total_emitted + len, span, held) BY <1>1, HoldsStays
<1> QED BY <1>1, <1>2

\* What is added is there.
LEMMA SectionAdded ==
  ASSUME WriterInv, NEW to, NEW len \in Nat, NEW kind, NEW what, SectionKept(to, len, kind, what),
         len = 0 => what = <<>>
  PROVE  /\ Span(len) \in SpanSet
         /\ InSpan(archive', total_emitted', Span(len), what)
<1>1. total_emitted \in Nat /\ total_emitted' = total_emitted + len
  BY DEF WriterInv, ArchiveInv, SectionKept
<1>2. Span(len) = [offset |-> total_emitted, size |-> len] BY DEF Span
<1>3. Span(len).offset = total_emitted /\ Span(len).size = len /\ Span(len) \in SpanSet
  BY <1>1, <1>2 DEF SpanSet
<1>4. CASE len = 0 BY <1>1, <1>3, <1>4 DEF InSpan
<1>5. CASE len # 0
  <2>1. PICK i \in 1 .. Len(archive') :
      archive'[i] = [at |-> total_emitted, len |-> len, kind |-> kind, what |-> what]
    BY <1>5 DEF SectionKept
  <2>2. archive'[i].at = total_emitted /\ archive'[i].len = len /\ archive'[i].what = what BY <2>1
  <2> QED BY <1>1, <1>3, <1>5, <2>2 DEF InSpan
<1> QED BY <1>3, <1>4, <1>5

\* What is known of the directory build() makes.
PlanTyped ==
  /\ HasLen(name_table_bytes, Len(name_table_bytes))
  /\ HasLen(file_tree_bytes, Len(file_tree_bytes))
  /\ phase # "refused" => Len(file_tree_bytes) # 0

SectionsTyped ==
  sections \in [compressed_data : Nat, offset_records : SpanSet, names : SpanSet, file_tree : SpanSet]

\* The sections with one of them set.
LEMMA SectionsSet ==
  ASSUME SectionsTyped, NEW span \in SpanSet, NEW n \in Nat
  PROVE  /\ [sections EXCEPT !.compressed_data = n]
              = [compressed_data |-> n, offset_records |-> sections.offset_records,
                 names |-> sections.names, file_tree |-> sections.file_tree]
         /\ [sections EXCEPT !.offset_records = span]
              = [compressed_data |-> sections.compressed_data, offset_records |-> span,
                 names |-> sections.names, file_tree |-> sections.file_tree]
         /\ [sections EXCEPT !.names = span] = [compressed_data |-> sections.compressed_data,
                 offset_records |-> sections.offset_records,
                 names |-> span, file_tree |-> sections.file_tree]
         /\ [sections EXCEPT !.file_tree = span]
              = [compressed_data |-> sections.compressed_data,
                 offset_records |-> sections.offset_records,
                 names |-> sections.names, file_tree |-> span]
BY DEF SectionsTyped

\* A part is empty only if its length is 0.
LEMMA EmptyPart ==
  ASSUME NEW s, HasLen(s, Len(s))
  PROVE  Len(s) \in Nat /\ (Len(s) = 0 => s = <<>>)
BY DEF HasLen

\* A record filled up.
LEMMA RecordsLength ==
  ASSUME RecordsInv
  PROVE  /\ Len(offset_records) \in Nat
         /\ Len(offset_records) = 0 => FullRecords = <<>>
<1>1. HasLen(offset_records, Len(offset_records)) /\ Len(offset_records) \in Nat BY DEF RecordsInv, HasLen
<1>2. CASE Len(offset_records) = 0
  <2>1. DOMAIN offset_records = {} BY <1>1, <1>2 DEF HasLen
  <2> QED BY <1>1, <2>1 DEF FullRecords
<1> QED BY <1>1, <1>2

\* What SectionsInv is to say after a step that goes to a phase.
LEMMA AlignPadStep ==
  ASSUME WriterInv, AlignPad
  PROVE  WriterInv'
<1>1. Pad \in Nat
  <2>1. total_emitted \in Nat /\ Alignment \in Nat \ {0} BY Sizes DEF WriterInv, ArchiveInv
  <2>2. total_emitted % Alignment \in 0 .. Alignment - 1 BY <2>1, DivMod
  <2> DEFINE x == total_emitted % Alignment
  <2>3. Alignment - x \in Nat /\ Pad = (Alignment - x) % Alignment BY <2>1, <2>2 DEF Pad
  <2> HIDE DEF x
  <2>4. (Alignment - x) % Alignment \in 0 .. Alignment - 1 BY <2>1, <2>3, DivMod
  <2> QED BY <2>1, <2>3, <2>4
<1>2. /\ Section("AlignPad", "OffsetRecords", <<>>, Pad)
      /\ sections' = [sections EXCEPT !.compressed_data = total_emitted]
  BY DEF AlignPad
<1>3. SectionKept("OffsetRecords", Pad, "AlignPad", <<>>) BY <1>1, <1>2, SectionStep DEF SectionPhases
<1>4. /\ SectionsTyped /\ total_emitted \in Nat /\ total_emitted' = total_emitted + Pad
      /\ phase' = "OffsetRecords"
  BY <1>3 DEF WriterInv, SectionsInv, SectionsTyped, ArchiveInv, SectionKept
<1>5. sections' = [compressed_data |-> total_emitted, offset_records |-> sections.offset_records,
    names |-> sections.names, file_tree |-> sections.file_tree]
  <2>1. sections.names \in SpanSet BY <1>4 DEF SectionsTyped
  <2> QED BY <1>2, <1>4, <2>1, SectionsSet
<1>6. SectionsTyped' /\ sections'.compressed_data = total_emitted BY <1>4, <1>5 DEF SectionsTyped
<1>7. SectionsInv' BY <1>1, <1>4, <1>6 DEF SectionsInv, SectionsTyped
<1> QED BY <1>3, <1>7 DEF SectionKept, WriterInv

\* The records are emitted.
LEMMA OffsetRecordsStep ==
  ASSUME WriterInv, OffsetRecords
  PROVE  WriterInv'
<1> DEFINE len == RecordSize * Len(offset_records)
<1>1. len \in Nat /\ (len = 0 => FullRecords = <<>>) BY Sizes, ScaledLength, RecordsLength DEF WriterInv
<1>h. len = RecordSize * Len(offset_records) OBVIOUS
<1>2. Section("OffsetRecords", "NameTable", FullRecords, len) BY DEF OffsetRecords
<1>n. sections' = [sections EXCEPT !.offset_records = Span(len)] BY DEF OffsetRecords
<1> HIDE DEF len
<1>3. SectionKept("NameTable", len, "OffsetRecords", FullRecords)
  BY <1>1, <1>2, SectionStep DEF SectionPhases
<1>4. /\ SectionsTyped /\ total_emitted \in Nat /\ total_emitted' = total_emitted + len
      /\ phase' = "NameTable" /\ sections.compressed_data <= total_emitted
      /\ offset_records' = offset_records
  BY <1>3 DEF WriterInv, SectionsInv, SectionsTyped, ArchiveInv, SectionKept
<1>5. Span(len) \in SpanSet /\ InSpan(archive', total_emitted', Span(len), FullRecords)
  BY <1>1, <1>3, SectionAdded
<1>6. sections' = [compressed_data |-> sections.compressed_data, offset_records |-> Span(len),
    names |-> sections.names, file_tree |-> sections.file_tree]
  BY <1>n, <1>4, <1>5, SectionsSet
<1>7. /\ SectionsTyped' /\ sections'.compressed_data = sections.compressed_data
      /\ sections'.offset_records = Span(len) /\ sections.compressed_data \in Nat
  BY <1>4, <1>5, <1>6 DEF SectionsTyped
<1>8. FullRecords' = FullRecords /\ Span(len).size = RecordSize * Len(offset_records)
  BY <1>4, <1>h DEF FullRecords, Span
<1>9. sections'.compressed_data <= total_emitted' BY <1>1, <1>4, <1>7
<1>10. SectionsInv' BY <1>4, <1>5, <1>7, <1>8, <1>9 DEF SectionsInv, SectionsTyped
<1> QED BY <1>3, <1>10 DEF SectionKept, WriterInv

\* The name table is emitted.
LEMMA NameTableStep ==
  ASSUME WriterInv, PlanTyped, NameTableSection
  PROVE  WriterInv'
<1> DEFINE len == Len(name_table_bytes)
<1>1. len \in Nat /\ (len = 0 => name_table_bytes = <<>>) BY EmptyPart DEF PlanTyped
<1>2. Section("NameTable", "FileTree", name_table_bytes, len) BY DEF NameTableSection
<1>n. sections' = [sections EXCEPT !.names = Span(len)] BY DEF NameTableSection
<1> HIDE DEF len
<1>3. SectionKept("FileTree", len, "NameTable", name_table_bytes)
  BY <1>1, <1>2, SectionStep DEF SectionPhases
<1>4. /\ SectionsTyped /\ total_emitted \in Nat /\ total_emitted' = total_emitted + len
      /\ phase = "NameTable" /\ phase' = "FileTree" /\ sections.compressed_data <= total_emitted
      /\ offset_records' = offset_records /\ name_table_bytes' = name_table_bytes
  BY <1>2, <1>3 DEF WriterInv, SectionsInv, SectionsTyped, ArchiveInv, SectionKept, Section
<1>s. /\ sections.offset_records.size = RecordSize * Len(offset_records)
      /\ InSpan(archive, total_emitted, sections.offset_records, FullRecords)
  BY <1>4 DEF WriterInv, SectionsInv
<1>5. Span(len) \in SpanSet /\ InSpan(archive', total_emitted', Span(len), name_table_bytes)
  BY <1>1, <1>3, SectionAdded
<1>6. sections' = [compressed_data |-> sections.compressed_data,
    offset_records |-> sections.offset_records,
    names |-> Span(len), file_tree |-> sections.file_tree]
  BY <1>n, <1>4, <1>5, SectionsSet
<1>7. /\ SectionsTyped' /\ sections'.compressed_data = sections.compressed_data
      /\ sections'.offset_records = sections.offset_records /\ sections.compressed_data \in Nat
      /\ sections.offset_records \in SpanSet /\ sections'.names = Span(len)
  BY <1>4, <1>5, <1>6 DEF SectionsTyped
<1>8. FullRecords' = FullRecords BY <1>4 DEF FullRecords
<1>9. sections'.compressed_data <= total_emitted' BY <1>1, <1>4, <1>7
<1>10. InSpan(archive', total_emitted', sections.offset_records, FullRecords)
  BY <1>1, <1>3, <1>7, <1>s, SectionHolds
<1>11. SectionsInv' BY <1>4, <1>5, <1>7, <1>8, <1>9, <1>10, <1>s DEF SectionsInv, SectionsTyped
<1> QED BY <1>3, <1>11 DEF SectionKept, WriterInv

\* The file tree is emitted.
LEMMA FileTreeStep ==
  ASSUME WriterInv, PlanTyped, FileTreeSection
  PROVE  WriterInv'
<1> DEFINE len == EntrySize * Len(file_tree_bytes)
<1>1. len \in Nat /\ (len = 0 => file_tree_bytes = <<>>)
  <2>1. Len(file_tree_bytes) \in Nat /\ (Len(file_tree_bytes) = 0 => file_tree_bytes = <<>>)
    BY EmptyPart DEF PlanTyped
  <2> QED BY <2>1, Sizes, ScaledLength
<1>h. len = EntrySize * Len(file_tree_bytes) OBVIOUS
<1>2. Section("FileTree", "Footer", file_tree_bytes, len) BY DEF FileTreeSection
<1>n. sections' = [sections EXCEPT !.file_tree = Span(len)] BY DEF FileTreeSection
<1> HIDE DEF len
<1>3. SectionKept("Footer", len, "FileTree", file_tree_bytes) BY <1>1, <1>2, SectionStep DEF SectionPhases
<1>4. /\ SectionsTyped /\ total_emitted \in Nat /\ total_emitted' = total_emitted + len
      /\ phase = "FileTree" /\ phase' = "Footer" /\ sections.compressed_data <= total_emitted
      /\ offset_records' = offset_records /\ name_table_bytes' = name_table_bytes
      /\ file_tree_bytes' = file_tree_bytes
  BY <1>2, <1>3 DEF WriterInv, SectionsInv, SectionsTyped, ArchiveInv, SectionKept, Section
<1>s. /\ sections.offset_records.size = RecordSize * Len(offset_records)
      /\ InSpan(archive, total_emitted, sections.offset_records, FullRecords)
      /\ InSpan(archive, total_emitted, sections.names, name_table_bytes)
  BY <1>4 DEF WriterInv, SectionsInv
<1>5. Span(len) \in SpanSet /\ InSpan(archive', total_emitted', Span(len), file_tree_bytes)
  BY <1>1, <1>3, SectionAdded
<1>6. sections' = [compressed_data |-> sections.compressed_data,
    offset_records |-> sections.offset_records,
    names |-> sections.names, file_tree |-> Span(len)]
  BY <1>n, <1>4, <1>5, SectionsSet
<1>7. /\ SectionsTyped' /\ sections'.compressed_data = sections.compressed_data
      /\ sections'.offset_records = sections.offset_records /\ sections.compressed_data \in Nat
      /\ sections'.names = sections.names /\ sections'.file_tree = Span(len)
      /\ sections.offset_records \in SpanSet /\ sections.names \in SpanSet
  BY <1>4, <1>5, <1>6 DEF SectionsTyped
<1>8. FullRecords' = FullRecords /\ Span(len).size = EntrySize * Len(file_tree_bytes)
  BY <1>4, <1>h DEF FullRecords, Span
<1>9. sections'.compressed_data <= total_emitted' BY <1>1, <1>4, <1>7
<1>10. /\ InSpan(archive', total_emitted', sections.offset_records, FullRecords)
       /\ InSpan(archive', total_emitted', sections.names, name_table_bytes)
  BY <1>1, <1>3, <1>7, <1>s, SectionHolds
<1>11. SectionsInv' BY <1>4, <1>5, <1>7, <1>8, <1>9, <1>10, <1>s DEF SectionsInv, SectionsTyped
<1> QED BY <1>3, <1>11 DEF SectionKept, WriterInv

\* The footer is emitted, which names all sections.
LEMMA FooterStep ==
  ASSUME WriterInv, PlanTyped, Footer
  PROVE  WriterInv'
<1> DEFINE what == [sections |-> sections, total_size |-> TotalSize]
<1>1. FooterSize \in Nat /\ FooterSize # 0 BY Sizes
<1>2. Section("Footer", "Done", what, FooterSize) /\ sections' = sections BY DEF Footer
<1> HIDE DEF what
<1>3. SectionKept("Done", FooterSize, "Footer", what) BY <1>1, <1>2, SectionStep DEF SectionPhases
<1>4. /\ SectionsTyped /\ total_emitted \in Nat /\ total_emitted' = total_emitted + FooterSize
      /\ phase = "Footer" /\ phase' = "Done" /\ sections.compressed_data <= total_emitted
      /\ offset_records' = offset_records /\ name_table_bytes' = name_table_bytes
      /\ file_tree_bytes' = file_tree_bytes
  BY <1>2, <1>3 DEF WriterInv, SectionsInv, SectionsTyped, ArchiveInv, SectionKept, Section
<1>s. /\ sections.offset_records.size = RecordSize * Len(offset_records)
      /\ InSpan(archive, total_emitted, sections.offset_records, FullRecords)
      /\ InSpan(archive, total_emitted, sections.names, name_table_bytes)
      /\ sections.file_tree.size = EntrySize * Len(file_tree_bytes)
      /\ InSpan(archive, total_emitted, sections.file_tree, file_tree_bytes)
  BY <1>4 DEF WriterInv, SectionsInv
<1>7. /\ sections.compressed_data \in Nat /\ SectionsTyped' /\ sections.file_tree \in SpanSet
      /\ sections.offset_records \in SpanSet /\ sections.names \in SpanSet
  BY <1>2, <1>4 DEF SectionsTyped
<1>8. FullRecords' = FullRecords BY <1>4 DEF FullRecords
<1>9. sections'.compressed_data <= total_emitted' BY <1>1, <1>2, <1>4, <1>7
<1>10. /\ InSpan(archive', total_emitted', sections.offset_records, FullRecords)
       /\ InSpan(archive', total_emitted', sections.names, name_table_bytes)
       /\ InSpan(archive', total_emitted', sections.file_tree, file_tree_bytes)
  BY <1>1, <1>3, <1>7, <1>s, SectionHolds
<1>t. what = [sections |-> sections', total_size |-> total_emitted'] BY <1>2, <1>4 DEF what, TotalSize
<1>p. PICK i \in 1 .. Len(archive') :
    archive'[i] = [at |-> total_emitted, len |-> FooterSize, kind |-> "Footer", what |-> what]
  BY <1>1, <1>3 DEF SectionKept
<1>11. total_emitted' > FooterSize
  <2> DEFINE n == Len(file_tree_bytes)
  <2>1. n \in Nat /\ n # 0 /\ EntrySize \in Nat \ {0} BY <1>4, Sizes DEF PlanTyped, HasLen
  <2> HIDE DEF n
  <2>2. EntrySize * n \in Nat /\ EntrySize * n # 0 BY <2>1, ScaledLength
  <2>3. sections.file_tree.offset + sections.file_tree.size <= total_emitted BY <1>s DEF InSpan
  <2>4. sections.file_tree.offset \in Nat /\ sections.file_tree.size = EntrySize * n
    BY <1>7, <1>s DEF SpanSet, n
  <2> DEFINE m == EntrySize * n
             o == sections.file_tree.offset
  <2>5. m \in Nat /\ m # 0 /\ o \in Nat /\ o + m <= total_emitted BY <2>2, <2>3, <2>4
  <2> HIDE DEF m, o
  <2> QED BY <1>1, <1>4, <2>5
<1>12. total_emitted' - FooterSize = total_emitted BY <1>1, <1>4
<1>13. /\ archive'[i].at = total_emitted' - FooterSize /\ archive'[i].len = FooterSize
       /\ archive'[i].kind = "Footer"
       /\ archive'[i].what = [sections |-> sections', total_size |-> total_emitted']
  BY <1>p, <1>t, <1>12
<1>14. SectionsInv'
  BY <1>1, <1>2, <1>4, <1>7, <1>8, <1>9, <1>10, <1>11, <1>13, <1>s DEF SectionsInv, SectionsTyped
<1> QED BY <1>3, <1>14 DEF SectionKept, WriterInv
\* The steps that read files, and the one that throws.
LEMMA ReadingStep ==
  ASSUME WriterInv, FlushBlocks \/ SkipFile \/ ReadFile \/ FileReadFails
  PROVE  WriterInv'
<1>1. /\ InputInv /\ ArchiveInv /\ BlocksInv /\ RecordsInv /\ CallInv /\ PlanInv /\ SectionsInv
  BY DEF WriterInv
<1>2. /\ phase = "Streaming" /\ phase' \in {"Streaming", "AlignPad"}
      /\ UNCHANGED planVars /\ sections' = sections /\ written' = written
      /\ call' \in {call, 0} /\ throws' \in 0 .. MaxThrows
  <2>1. throws \in 0 .. MaxThrows /\ MaxThrows \in Nat BY <1>1, Sizes DEF CallInv
  <2>2. CASE FlushBlocks BY <2>1, <2>2 DEF FlushBlocks, Streaming
  <2>3. CASE SkipFile BY <2>1, <2>3 DEF SkipFile, InFile, Streaming
  <2>4. CASE ReadFile BY <2>1, <2>4 DEF ReadFile, InFile, Streaming
  <2>5. CASE FileReadFails BY <2>1, <2>5 DEF FileReadFails, InFile, Streaming
  <2> QED BY <2>2, <2>3, <2>4, <2>5
<1>3. /\ files' = files /\ name_table_bytes' = name_table_bytes
      /\ file_tree_bytes' = file_tree_bytes /\ total_input_bytes' = total_input_bytes
  BY <1>2 DEF planVars
<1>4. Reading BY <1>1, <1>2, <1>3 DEF Reading, BeforeFlush, CallInv
<1>5. ReadingKept BY <1>4, FlushBlocksStep, SkipFileStep, ReadFileStep, FileReadFailsStep
<1>6. PICK len \in Nat : total_emitted' = total_emitted + len /\ pending_output' = pending_output + len
  BY <1>5 DEF ReadingKept
<1>7. CallInv'
  <2>1. /\ pending_output \in Nat /\ written \in Nat /\ written + pending_output = total_emitted
        /\ call \in ChunkLimits \cup {0} /\ total_emitted \in Nat
    BY <1>1 DEF CallInv, ArchiveInv
  <2> QED BY <1>2, <1>6, <2>1 DEF CallInv, Phases
<1>8. PlanInv' BY <1>1, <1>2, <1>3 DEF PlanInv
<1>9. SectionsInv'
  <2>1. sections.compressed_data \in Nat /\ sections.compressed_data <= total_emitted
        /\ total_emitted \in Nat
    BY <1>1 DEF SectionsInv, ArchiveInv
  <2>2. sections'.compressed_data <= total_emitted' BY <1>2, <1>6, <2>1
  <2> QED BY <1>1, <1>2, <2>2 DEF SectionsInv
<1> QED BY <1>5, <1>7, <1>8, <1>9 DEF ReadingKept, WriterInv

\* next_chunk() begins, or returns what it has.
LEMMA CallStep ==
  ASSUME WriterInv, ReturnChunk \/ \E max \in ChunkLimits : BeginCall(max)
  PROVE  WriterInv'
<1>1. /\ InputInv /\ ArchiveInv /\ BlocksInv /\ RecordsInv /\ CallInv /\ PlanInv /\ SectionsInv
  BY DEF WriterInv
<1>2. /\ files' = files /\ name_table_bytes' = name_table_bytes
      /\ file_tree_bytes' = file_tree_bytes /\ total_input_bytes' = total_input_bytes
      /\ phase' = phase /\ current_file' = current_file /\ current_file_pos' = current_file_pos
      /\ block_buffer' = block_buffer /\ total_emitted' = total_emitted
      /\ blocks_written' = blocks_written /\ offset_records' = offset_records
      /\ sections' = sections /\ archive' = archive /\ throws' = throws
  BY DEF ReturnChunk, BeginCall, sessionVars, planVars
<1>3. BeforeFlush' = BeforeFlush /\ SourceSize' = SourceSize /\ SourceBytes' = SourceBytes
      /\ \A b : BlockOf(b)' = BlockOf(b)
  BY <1>2, SourceStays DEF BeforeFlush
<1>4. InputInv' BY <1>1, <1>2, <1>3 DEF InputInv
<1>5. ArchiveInv' BY <1>1, <1>2 DEF ArchiveInv
<1>6. BlocksInv' BY <1>1, <1>2, <1>3 DEF BlocksInv
<1>7. RecordsInv' BY <1>1, <1>2 DEF RecordsInv
<1>8. PlanInv' BY <1>1, <1>2 DEF PlanInv
<1>9. FullRecords' = FullRecords BY <1>2 DEF FullRecords
<1>10. SectionsInv' BY <1>1, <1>2, <1>9 DEF SectionsInv
<1>11. CallInv'
  <2>1. /\ pending_output \in Nat /\ written \in Nat /\ written + pending_output = total_emitted
        /\ call \in ChunkLimits \cup {0} /\ throws \in 0 .. MaxThrows /\ phase \in Phases
        /\ phase = "refused" => call = 0 /\ current_file = 1 /\ current_file_pos = 0
    BY <1>1 DEF CallInv
  <2>2. CASE ReturnChunk
    <3>1. /\ pending_output' = pending_output - Drain /\ written' = written + Drain /\ call' = 0
          /\ call > 0
      BY <2>2 DEF ReturnChunk
    <3>2. call \in Nat
      <4>1. call \in ChunkLimits \cup {0} BY <2>1
      <4> QED BY ONLY <4>1, ZarAssumption
    <3>3. Drain = IF call <= pending_output THEN call ELSE pending_output
      <4>1. pending_output \in Int /\ call \in Int BY <2>1, <3>2
      <4> QED BY ONLY <4>1, MinPair DEF Drain
    <3>4. Drain \in Nat /\ Drain <= pending_output BY <2>1, <3>2, <3>3
    <3>5. pending_output' \in Nat /\ written' \in Nat /\ written' + pending_output' = total_emitted
      BY <2>1, <3>1, <3>4
    <3> QED BY <1>2, <2>1, <3>1, <3>5 DEF CallInv
  <2>3. ASSUME NEW max \in ChunkLimits, BeginCall(max) PROVE CallInv'
    <3>1. call' = max /\ pending_output' = pending_output /\ written' = written /\ phase # "refused"
      BY <2>3 DEF BeginCall, sessionVars
    <3> QED BY <1>2, <2>1, <3>1 DEF CallInv
  <2> QED BY <2>2, <2>3
<1> QED BY <1>4, <1>5, <1>6, <1>7, <1>8, <1>10, <1>11 DEF WriterInv

\* Nothing of the writer changes.
LEMMA WriterFrozen ==
  ASSUME WriterInv, UNCHANGED writerVars
  PROVE  WriterInv'
<1>1. /\ InputInv /\ ArchiveInv /\ BlocksInv /\ RecordsInv /\ CallInv /\ PlanInv /\ SectionsInv
  BY DEF WriterInv
<1>2. /\ files' = files /\ name_table_bytes' = name_table_bytes
      /\ file_tree_bytes' = file_tree_bytes /\ total_input_bytes' = total_input_bytes
      /\ phase' = phase /\ current_file' = current_file /\ current_file_pos' = current_file_pos
      /\ block_buffer' = block_buffer /\ total_emitted' = total_emitted
      /\ blocks_written' = blocks_written /\ offset_records' = offset_records
      /\ sections' = sections /\ archive' = archive /\ throws' = throws
      /\ pending_output' = pending_output /\ call' = call /\ written' = written
  BY DEF writerVars, sessionVars, planVars
<1>3. BeforeFlush' = BeforeFlush /\ SourceSize' = SourceSize /\ SourceBytes' = SourceBytes
      /\ \A b : BlockOf(b)' = BlockOf(b)
  BY <1>2, SourceStays DEF BeforeFlush
<1>4. InputInv' BY <1>1, <1>2, <1>3 DEF InputInv
<1>5. ArchiveInv' BY <1>1, <1>2 DEF ArchiveInv
<1>6. BlocksInv' BY <1>1, <1>2, <1>3 DEF BlocksInv
<1>7. RecordsInv' BY <1>1, <1>2 DEF RecordsInv
<1>8. PlanInv' BY <1>1, <1>2 DEF PlanInv
<1>9. FullRecords' = FullRecords BY <1>2 DEF FullRecords
<1>10. SectionsInv' BY <1>1, <1>2, <1>9 DEF SectionsInv
<1>11. CallInv' BY <1>1, <1>2 DEF CallInv
<1> QED BY <1>4, <1>5, <1>6, <1>7, <1>8, <1>10, <1>11 DEF WriterInv

\* A session begins with nothing emitted.
LEMMA WriterBegins ==
  ASSUME WriterInit
  PROVE  WriterInv
<1>1. /\ files \in Listings /\ Build /\ current_file = 1 /\ current_file_pos = 0
      /\ block_buffer = <<>> /\ total_emitted = 0 /\ blocks_written = 0 /\ offset_records = <<>>
      /\ pending_output = 0 /\ sections = NoSections /\ call = 0 /\ archive = <<>>
      /\ throws = 0 /\ written = 0
  BY DEF WriterInit
<1>2. phase \in {"Streaming", "refused"} /\ BeforeFlush /\ phase \in Phases
  BY <1>1 DEF Build, BeforeFlush, Phases
<1>3. files \in Seq(FileEntry) BY <1>1, ZarAssumption DEF FileEntry
<1>4. /\ Len(files) \in Nat /\ FileStart(files, 1) = 0
      /\ \A f \in 1 .. Len(files) : files[f].size \in Nat
  <2>1. \A f \in 1 .. Len(files) : files[f] \in FileEntry BY <1>3
  <2> QED BY <1>3, <2>1, FileStarts DEF FileEntry
<1>5. BlockBytes \in Nat \ {0} BY Sizes
<1>6. InputInv
  <2>1. <<>> \in Seq(Byte) /\ Len(<<>>) = 0 /\ 1 .. 0 = {} /\ 0 < BlockBytes
        /\ 0 * BlockBytes + 0 = 0 + 0
    BY <1>5
  <2>2. 1 \in 1 .. Len(files) + 1 /\ (1 <= Len(files) => 0 <= files[1].size) BY <1>4
  <2> QED BY <1>1, <1>2, <1>4, <2>1, <2>2 DEF InputInv
<1>7. Len(archive) = 0 /\ HasLen(archive, 0) /\ 1 .. 0 = {} /\ Len(offset_records) = 0
      /\ HasLen(offset_records, 0)
  BY <1>1 DEF HasLen
<1>8. ArchiveInv BY <1>1, <1>7 DEF ArchiveInv
<1>9. BlocksInv BY <1>1, <1>7 DEF BlocksInv
<1>10. RecordsInv BY <1>1, <1>7 DEF RecordsInv
<1>11. SectionsInv
  <2>1. NoSections \in [compressed_data : Nat, offset_records : SpanSet,
                        names : SpanSet, file_tree : SpanSet]
        /\ NoSections.compressed_data = 0
    BY DEF NoSections, SpanSet
  <2> QED BY <1>1, <1>2, <2>1 DEF SectionsInv
<1>12. CallInv BY <1>1, <1>2, Sizes DEF CallInv
<1>13. PlanInv BY <1>1 DEF Build, PlanInv
<1> QED BY <1>6, <1>8, <1>9, <1>10, <1>11, <1>12, <1>13 DEF WriterInv

\* What build() makes of a listing, and what a reader makes of that.
TableOf(list) == NameTable(Interned(PathTree(list).arena))
TreeOf(list) == FileTree(PathTree(list).arena, Interned(PathTree(list).arena))
ListingOf(list) == BuildFiles(TableOf(list), TreeOf(list))

DirectoryPlanned(list) ==
  /\ PathTree(list).ok \in BOOLEAN
  /\ PathTree(list).running_offset \in Nat
  /\ ~PathTree(list).ok <=> Clashes(list)
  /\ PathTree(list).ok =>
       /\ PathTree(list).running_offset = FileStart(list, Len(list) + 1)
       /\ HasLen(TableOf(list), Len(TableOf(list)))
       /\ HasLen(TreeOf(list), Len(TreeOf(list))) /\ Len(TreeOf(list)) # 0
       /\ ListingOf(list).ok
       /\ RoundTrip(list, ListingOf(list).files)

\* build() lays every listing out that has no clashing paths, and a reader lists what it laid out.
LEMMA PlansComeBack ==
  ASSUME NEW list \in Listings
  PROVE  DirectoryPlanned(list)
<1> DEFINE arena == PathTree(list).arena
           names == Interned(arena)
           order == BfsOrder(arena)
           table == TableOf(list)
           tree == TreeOf(list)
           walk == ListingOf(list)
<1>1. list \in Seq(FileEntry) /\ FileStart(list, Len(list) + 1) < Word * Half
  <2>1. /\ list \in Seq([path : Seq(DOMAIN Fold), size : Nat])
        /\ FileStart(list, Len(list) + 1) < Word * Half
    BY ZarAssumption
  <2> QED BY <2>1 DEF FileEntry
<1>2. /\ PathTree(list).ok \in BOOLEAN /\ PathTree(list).running_offset \in Nat
      /\ ~PathTree(list).ok <=> Clashes(list)
      /\ PathTree(list).ok => \E key, node : PathTreeOf(list, key, node)
  BY <1>1, PathTreeSound
<1>3. ASSUME PathTree(list).ok
      PROVE  /\ PathTree(list).running_offset = FileStart(list, Len(list) + 1)
             /\ HasLen(table, Len(table))
             /\ HasLen(tree, Len(tree)) /\ Len(tree) # 0
             /\ walk.ok
             /\ RoundTrip(list, walk.files)
  <2>1. PICK key, node : PathTreeOf(list, key, node) BY <1>2, <1>3
  <2>2. /\ IsPathTree(arena, key) /\ FilesHeld(arena, key, list, node, Len(list))
        /\ PathTree(list).running_offset = FileStart(list, Len(list) + 1)
        /\ \A f \in 1 .. Len(list) : list[f].path # <<>>
    BY <2>1 DEF PathTreeOf
  <2>3. table = NameTable(names) /\ tree = FileTree(arena, names) /\ walk = BuildFiles(table, tree)
    BY DEF TableOf, TreeOf, ListingOf
  <2> HIDE DEF arena, order, table, tree, walk
  <2>4. PICK l : IsBreadthFirst(arena, BfsOrder(arena), l) BY <2>2, BreadthFirst
  <2>5. IsTreeOf(tree, table, arena, BfsOrder(arena), l) BY <1>1, <2>2, <2>3, <2>4, FileTreeIs
  <2>6. IsArchived(table, tree, arena, key, BfsOrder(arena), l) BY <2>2, <2>4, <2>5 DEF IsArchived
  <2>7. HasLen(tree, Len(tree)) /\ Len(tree) # 0
    <3>1. /\ Len(arena) \in Nat \ {0} /\ Len(tree) = Len(arena) /\ HasLen(tree, Len(tree))
      BY <2>6, TreeFields
    <3> QED BY <3>1
  <2>8. HasLen(table, Len(table))
    <3>1. names \in Seq(FileNames) BY <2>2, KidsAre, InternedNames DEF IsPathTree
    <3>2. PICK run : IsTableRun(run, names) BY <3>1, NameTableRun
    <3>3. Len(names) \in 0 .. Len(names) /\ NameTable(names) = run[Len(names)]
      <4>1. Len(names) \in Nat BY <3>1
      <4> QED BY <3>2, <4>1 DEF IsTableRun
    <3>4. HasLen(run[Len(names)], Len(run[Len(names)])) BY <3>2, <3>3 DEF IsTableRun
    <3> QED BY <2>3, <3>3, <3>4
  <2>9. walk \in Readings(table, tree) BY <2>3, <2>6, ListingSound
  <2>10. PICK dirs, from : IsListed(walk, dirs, from, tree, arena, key, BfsOrder(arena), Len(arena))
    BY <2>3, <2>6, ListingSound
  <2>11. walk.ok BY <2>10 DEF IsListed
  <2>12. RoundTrip(list, walk.files) BY <1>1, <2>2, <2>6, <2>9, <2>10, FilesRoundTrip
  <2> QED BY <2>2, <2>7, <2>8, <2>11, <2>12
<1> QED BY <1>2, <1>3 DEF DirectoryPlanned

-----------------------------------------------------------------------------
(* The steps of the writer, together                                         *)

\* The directory of the session is that of its listing.
LEMMA PlanOfFiles ==
  ASSUME WriterInv
  PROVE  /\ PlanTyped /\ DirectoryPlanned(files)
         /\ phase = "refused" <=> ~PathTree(files).ok
         /\ total_input_bytes \in Nat
         /\ phase # "refused" => /\ name_table_bytes = TableOf(files)
                                 /\ file_tree_bytes = TreeOf(files)
                                 /\ total_input_bytes = SourceSize
<1>1. DirectoryPlanned(files) /\ PlanInv BY PlansComeBack DEF WriterInv, InputInv
<1>2. /\ phase = "refused" <=> ~PathTree(files).ok
      /\ name_table_bytes = IF PathTree(files).ok THEN TableOf(files) ELSE <<>>
      /\ file_tree_bytes = IF PathTree(files).ok THEN TreeOf(files) ELSE <<>>
      /\ total_input_bytes = PathTree(files).running_offset
  BY <1>1 DEF PlanInv, TableOf, TreeOf
<1>3. HasLen(<<>>, 0) /\ Len(<<>>) = 0 BY DEF HasLen
<1>4. PlanTyped BY <1>1, <1>2, <1>3 DEF PlanTyped, DirectoryPlanned
<1> QED BY <1>1, <1>2, <1>4 DEF DirectoryPlanned, SourceSize

\* Every step of the writer keeps its invariant.
LEMMA WriterStep ==
  ASSUME WriterInv, WriterCall \/ FileReadFails
  PROVE  WriterInv'
<1>1. PlanTyped BY PlanOfFiles
<1>2. CASE Advance
  BY <1>1, <1>2, ReadingStep, AlignPadStep, OffsetRecordsStep, NameTableStep, FileTreeStep, FooterStep
     DEF Advance
<1>3. CASE FileReadFails BY <1>3, ReadingStep
<1>4. CASE ReturnChunk \/ \E max \in ChunkLimits : BeginCall(max) BY <1>4, CallStep
<1> QED BY <1>2, <1>3, <1>4 DEF WriterCall

-----------------------------------------------------------------------------
(* What a reader finds in an archive                                         *)

\* Nothing else begins where something does.
LEMMA ItemFound ==
  ASSUME ArchiveInv, NEW i \in 1 .. Len(archive)
  PROVE  ReadAt(archive[i].at, archive[i].len) = archive[i]
<1> DEFINE at == archive[i].at
           len == archive[i].len
           P(j) == archive[j].at = at /\ archive[j].len = len
<1>1. /\ Len(archive) \in Nat /\ DOMAIN archive = 1 .. Len(archive)
      /\ \A j \in 1 .. Len(archive) : /\ archive[j].at \in Nat /\ archive[j].len \in Nat \ {0}
           /\ \A k \in 1 .. j - 1 : archive[k].at + archive[k].len <= archive[j].at
  BY DEF ArchiveInv, HasLen
<1>2. ASSUME NEW j \in DOMAIN archive, P(j) PROVE j = i
  <2>1. j \in 1 .. Len(archive) /\ archive[j].at = archive[i].at BY <1>1, <1>2
  <2>2. archive[j].len \in Nat \ {0} /\ archive[i].len \in Nat \ {0} /\ archive[i].at \in Nat
    BY <1>1, <2>1
  <2>3. CASE j < i
    <3>1. j \in 1 .. i - 1 BY <1>1, <2>1, <2>3
    <3>2. archive[j].at + archive[j].len <= archive[i].at BY <1>1, <3>1
    <3> QED BY <2>1, <2>2, <3>2
  <2>4. CASE i < j
    <3>1. i \in 1 .. j - 1 BY <1>1, <2>1, <2>4
    <3>2. archive[i].at + archive[i].len <= archive[j].at BY <1>1, <2>1, <3>1
    <3> QED BY <2>1, <2>2, <3>2
  <2> QED BY <1>1, <2>1, <2>3, <2>4
<1>3. i \in DOMAIN archive /\ P(i) BY <1>1
<1>4. (CHOOSE j \in DOMAIN archive : P(j)) = i BY <1>2, <1>3
<1> QED BY <1>3, <1>4 DEF ReadAt

\* A section is found where the footer says it is.
LEMMA SectionFound ==
  ASSUME ArchiveInv, NEW total, NEW span, NEW what, InSpan(archive, total, span, what)
  PROVE  SectionAt(span) = what
<1>1. CASE span.size = 0
  <2>1. \A i \in DOMAIN archive : archive[i].len # 0 BY DEF ArchiveInv, HasLen
  <2>2. ReadAt(span.offset, span.size) = Noise BY <1>1, <2>1 DEF ReadAt
  <2>3. what = <<>> BY <1>1 DEF InSpan
  <2> QED BY <2>2, <2>3 DEF SectionAt, Noise
<1>2. CASE span.size # 0
  <2>1. PICK i \in 1 .. Len(archive) : archive[i].at = span.offset /\ archive[i].len = span.size
                                       /\ archive[i].what = what
    BY <1>2 DEF InSpan
  <2>2. ReadAt(span.offset, span.size) = archive[i] BY <2>1, ItemFound
  <2> QED BY <2>1, <2>2 DEF SectionAt
<1> QED BY <1>1, <1>2

\* What open() finds of a finished archive: it accepts it, and its parts are
\* those the session put there.
LEMMA ArchiveOpens ==
  ASSUME WriterInv, ArchiveDone
  PROVE  /\ written = total_emitted /\ phase = "Done"
         /\ Acceptable
         /\ Directory = ListingOf(files)
         /\ ReadRecords = FullRecords
<1>1. /\ InputInv /\ ArchiveInv /\ BlocksInv /\ RecordsInv /\ CallInv /\ PlanInv /\ SectionsInv
  BY DEF WriterInv
<1>2. phase = "Done" /\ pending_output = 0 /\ written = total_emitted /\ written \in Nat
  BY <1>1 DEF ArchiveDone, CallInv
<1>3. /\ SectionsTyped /\ sections.compressed_data <= total_emitted
      /\ sections.offset_records.size = RecordSize * Len(offset_records)
      /\ InSpan(archive, total_emitted, sections.offset_records, FullRecords)
      /\ InSpan(archive, total_emitted, sections.names, name_table_bytes)
      /\ sections.file_tree.size = EntrySize * Len(file_tree_bytes)
      /\ InSpan(archive, total_emitted, sections.file_tree, file_tree_bytes)
      /\ total_emitted > FooterSize
  BY <1>1, <1>2 DEF SectionsInv, SectionsTyped
<1>4. PICK i \in 1 .. Len(archive) :
    /\ archive[i].at = total_emitted - FooterSize
    /\ archive[i].len = FooterSize
    /\ archive[i].kind = "Footer"
    /\ archive[i].what = [sections |-> sections, total_size |-> total_emitted]
  BY <1>1, <1>2 DEF SectionsInv
<1>5. FooterItem = archive[i] BY <1>1, <1>2, <1>4, ItemFound DEF FooterItem
<1>6. FooterRead.sections = sections /\ FooterRead.total_size = written /\ FooterItem.kind = "Footer"
  BY <1>2, <1>4, <1>5 DEF FooterRead
<1>7. /\ SectionAt(sections.offset_records) = FullRecords
      /\ SectionAt(sections.names) = name_table_bytes
      /\ SectionAt(sections.file_tree) = file_tree_bytes
  BY <1>1, <1>3, SectionFound
<1>8. /\ name_table_bytes = TableOf(files) /\ file_tree_bytes = TreeOf(files) /\ PlanTyped
  BY <1>2, PlanOfFiles
<1>9. Directory = ListingOf(files) BY <1>6, <1>7, <1>8 DEF Directory, ListingOf
<1>10. ReadRecords = FullRecords BY <1>6, <1>7 DEF ReadRecords
<1>11. /\ sections.offset_records.size % RecordSize = 0
       /\ sections.file_tree.size % EntrySize = 0
  <2>1. Len(offset_records) \in Nat /\ Len(file_tree_bytes) \in Nat
    BY <1>1, <1>8, RecordsLength DEF PlanTyped, HasLen
  <2> QED BY <1>3, <2>1, Sizes, ProductRemainder
<1>12. /\ InFileRange(sections.offset_records) /\ InFileRange(sections.names)
       /\ InFileRange(sections.file_tree)
  BY <1>2, <1>3 DEF InSpan, InFileRange
<1>13. Acceptable BY <1>2, <1>3, <1>6, <1>11, <1>12 DEF Acceptable
<1> QED BY <1>2, <1>9, <1>10, <1>13
\* A record with zeros behind its sizes.
LEMMA RecordFilled ==
  ASSUME NEW record \in RecordSet, NEW zeros
  PROVE  [record EXCEPT !.sizes = @ \o zeros]
           = [base_offset |-> record.base_offset, sizes |-> record.sizes \o zeros]
<1> DEFINE V == Seq(0 .. BlockBytes - 1)
<1>1. record \in [base_offset : Nat, sizes : V] BY DEF RecordSet
<1> HIDE DEF V
<1>2. record = [base_offset |-> record.base_offset, sizes |-> record.sizes] BY <1>1
<1> DEFINE b == record.base_offset
           s == record.sizes
<1>3. record = [base_offset |-> b, sizes |-> s] BY <1>2
<1> DEFINE t == record.sizes \o zeros
<1> HIDE DEF b, s, t
<1>4. [record EXCEPT !.sizes = t] = [base_offset |-> b, sizes |-> t] BY <1>3
<1> QED BY <1>4 DEF b, t

\* What a full record says is what the record says.
LEMMA FullRecord ==
  ASSUME RecordsInv, NEW r \in 1 .. Len(offset_records)
  PROVE  /\ FullRecords[r].base_offset = offset_records[r].base_offset
         /\ \A i \in 1 .. Len(offset_records[r].sizes) :
              FullRecords[r].sizes[i] = offset_records[r].sizes[i]
<1> DEFINE record == offset_records[r]
           n == Len(record.sizes)
           zeros == [i \in 1 .. EntriesPerRecord - n |-> 0]
<1>1. DOMAIN offset_records = 1 .. Len(offset_records) /\ record \in RecordSet
      /\ n \in 1 .. EntriesPerRecord
  BY DEF RecordsInv, IsRecord, HasLen
<1>2. FullRecords[r] = [record EXCEPT !.sizes = @ \o zeros] BY <1>1 DEF FullRecords
<1>3. HasLen(zeros, EntriesPerRecord - n) /\ n \in Nat BY <1>1, Sizes DEF HasLen
<1>4. record.sizes \in Seq(0 .. BlockBytes - 1) BY <1>1 DEF RecordSet
<1> DEFINE s == record.sizes
<1>5. HasLen(s, n)
  <2> HIDE DEF record
  <2> QED BY <1>4, SeqIsSequence
<1> HIDE DEF record, zeros
<1>6. FullRecords[r] = [base_offset |-> record.base_offset, sizes |-> s \o zeros]
  BY <1>1, <1>2, RecordFilled
<1> HIDE DEF s, n
<1>7. IsConcat(s \o zeros, s, n, zeros, EntriesPerRecord - n) BY <1>3, <1>5, SequenceConcat
<1>8. EntriesPerRecord \in Nat BY Sizes
<1>9. ASSUME NEW i \in 1 .. n PROVE (s \o zeros)[i] = s[i]
  <2>1. i \in 1 .. n + (EntriesPerRecord - n) /\ i <= n BY <1>1, <1>3, <1>8
  <2> QED BY <1>7, <2>1 DEF IsConcat
<1> QED BY <1>6, <1>9 DEF record, s, n

\* The block of a record a block is in, and its place there.
LEMMA RecordOfBlock ==
  ASSUME RecordsInv, blocks_written \in Nat, NEW b \in 0 .. blocks_written - 1
  PROVE  /\ (b \div EntriesPerRecord) + 1 \in 1 .. Len(offset_records)
         /\ (b % EntriesPerRecord) + 1
              \in 1 .. Len(offset_records[(b \div EntriesPerRecord) + 1].sizes)
         /\ (b \div EntriesPerRecord) * EntriesPerRecord + (b % EntriesPerRecord) = b
         /\ b % EntriesPerRecord \in Nat
<1> DEFINE E == EntriesPerRecord
           R == Len(offset_records)
           q == b \div E
           m == b % E
           L(r) == Len(offset_records[r].sizes)
<1>1. E \in Nat \ {0} /\ R \in Nat /\ b \in Nat /\ b < blocks_written
      /\ (R = 0 => blocks_written = 0)
  <2>1. HasLen(offset_records, R) /\ (offset_records = <<>> => blocks_written = 0) BY DEF RecordsInv
  <2>2. R = 0 => offset_records = <<>> BY <2>1 DEF HasLen
  <2> QED BY <2>1, <2>2, Sizes DEF HasLen
<1>2. \A r \in 1 .. R : L(r) \in 1 .. E /\ (r - 1) * E + L(r) = IF r = R THEN blocks_written ELSE r * E
  BY DEF RecordsInv, IsRecord
<1>3. q \in Nat /\ m \in 0 .. E - 1 /\ b = q * E + m BY <1>1, DivMod
<1> HIDE DEF E, q, m, L, R
<1>4. R >= 1 /\ R - 1 \in Nat /\ R \in 1 .. R BY <1>1
<1>5. (R - 1) * E + L(R) = blocks_written /\ L(R) \in 1 .. E BY <1>2, <1>4
<1>6. q <= R - 1
  <2> SUFFICES ASSUME ~(q <= R - 1) PROVE FALSE OBVIOUS
  <2>1. R <= q /\ R \in Nat BY <1>1, <1>3
  <2>2. R * E <= q * E BY <1>1, <1>3, <2>1, MultMonotonic
  <2>3. (R - 1) * E + E = R * E BY <1>1, <1>4
  <2> DEFINE x == (R - 1) * E
             y == R * E
             z == q * E
  <2>4. x \in Nat /\ y \in Nat /\ z \in Nat /\ x + E = y /\ y <= z /\ b = z + m
        /\ x + L(R) = blocks_written
    BY <1>1, <1>3, <1>4, <1>5, <2>2, <2>3
  <2> HIDE DEF x, y, z
  <2> QED BY <1>1, <1>3, <1>5, <2>4
<1>7. q + 1 \in 1 .. R /\ (q + 1) - 1 = q BY <1>3, <1>4, <1>6
<1>8. m + 1 \in 1 .. L(q + 1)
  <2>1. L(q + 1) \in 1 .. E
        /\ q * E + L(q + 1) = IF q + 1 = R THEN blocks_written ELSE (q + 1) * E
    BY <1>2, <1>7
  <2>2. (q + 1) * E = q * E + E BY <1>1, <1>3
  <2> DEFINE z == q * E
  <2>3. z \in Nat /\ z + L(q + 1) = (IF q + 1 = R THEN blocks_written ELSE z + E) /\ b = z + m
    BY <1>1, <1>3, <2>1, <2>2
  <2> HIDE DEF z
  <2> QED BY <1>1, <1>3, <2>1, <2>3
<1> QED BY <1>3, <1>7, <1>8 DEF E, q, m, L, R

\* Every block is found through its record, and holds what it is to hold.
LEMMA BlockDecodes ==
  ASSUME WriterInv, ArchiveDone, NEW b \in 0 .. blocks_written - 1
  PROVE  Decoded(b) = BlockOf(b)
<1> DEFINE E == EntriesPerRecord
           q == b \div E
           m == b % E
           a == q * E
           record == offset_records[q + 1]
           L == Len(record.sizes)
           full == FullRecords[q + 1]
           item == archive[b + 1]
<1>1. /\ InputInv /\ ArchiveInv /\ BlocksInv /\ RecordsInv /\ blocks_written \in Nat
      /\ BlockBytes \in Nat \ {0}
  BY Sizes DEF WriterInv, InputInv
<1>2. ReadRecords = FullRecords BY ArchiveOpens
<1>3. q + 1 \in 1 .. Len(offset_records) /\ m + 1 \in 1 .. L /\ a + m = b /\ m \in Nat
  BY <1>1, RecordOfBlock
<1>4. E \in Nat \ {0} /\ b \in Nat /\ q \in Nat /\ (q + 1) - 1 = q /\ a \in Nat
  <2>1. E \in Nat \ {0} /\ b \in Nat BY <1>1, Sizes
  <2>2. q \in Nat BY <2>1, DivMod
  <2> QED BY <2>1, <2>2
<1>5. IsRecord(archive, record, a) BY <1>1, <1>3, <1>4 DEF RecordsInv
<1>6. /\ full.base_offset = record.base_offset
      /\ \A i \in 1 .. L : full.sizes[i] = record.sizes[i]
  BY <1>1, <1>3, FullRecord
<1>c. /\ CompressedOffset(b) = full.base_offset + FoldLeft(+, 0, [i \in 1 .. m |-> full.sizes[i] + 1])
      /\ StoredLen(b) = full.sizes[m + 1] + 1
  BY <1>2 DEF CompressedOffset, StoredLen
<1>w. /\ \A j \in 1 .. blocks_written : /\ j \in 1 .. Len(archive)
           /\ archive[j].at \in Nat /\ archive[j].len \in Nat \ {0}
           /\ (j + 1 \in 1 .. Len(archive) => archive[j].at + archive[j].len = archive[j + 1].at)
  <2>1. blocks_written <= Len(archive) /\ Len(archive) \in Nat BY <1>1 DEF BlocksInv, ArchiveInv, HasLen
  <2>2. \A j \in 1 .. blocks_written : j \in 1 .. Len(archive)
        /\ (j + 1 \in 1 .. Len(archive) => j # Len(archive))
    BY <1>1, <2>1
  <2> QED BY <1>1, <2>2 DEF ArchiveInv
<1>b. b + 1 \in 1 .. blocks_written /\ b + 1 \in 1 .. Len(archive)
  <2>1. b + 1 \in 1 .. blocks_written BY <1>1
  <2> QED BY <1>w, <2>1
<1>r. /\ record.base_offset = archive[a + 1].at
      /\ \A i \in 1 .. L : record.sizes[i] = archive[a + i].len - 1
      /\ L \in Nat
  BY <1>5 DEF IsRecord
<1> HIDE DEF record, full, L, a, q, m, E
<1>7. ASSUME NEW i \in 1 .. m + 1
      PROVE  /\ i \in 1 .. L /\ a + i \in 1 .. blocks_written /\ a + i \in 1 .. Len(archive)
             /\ full.sizes[i] + 1 = archive[a + i].len
  <2>1. i \in 1 .. L /\ a + i \in 1 .. blocks_written BY <1>1, <1>3, <1>4, <1>b, <1>r
  <2>2. full.sizes[i] = archive[a + i].len - 1 /\ archive[a + i].len \in Nat BY <1>6, <1>r, <1>w, <2>1
  <2> QED BY <1>w, <2>1, <2>2
<1>8. StoredLen(b) = item.len
  <2>1. m + 1 \in 1 .. m + 1 /\ a + (m + 1) = b + 1 BY <1>3, <1>4
  <2> QED BY <1>7, <1>c, <2>1
<1>9. CompressedOffset(b) = item.at
  <2> DEFINE g == [i \in 1 .. m |-> full.sizes[i] + 1]
             sum(k) == FoldLeft(+, 0, [i \in 1 .. k |-> g[i]])
             D == {k \in Nat : k <= m => archive[a + 1].at + sum(k) = archive[a + 1 + k].at}
  <2>1. HasLen(g, m) /\ \A k \in 1 .. m : g[k] = archive[a + k].len /\ g[k] \in Nat
    <3>1. \A k \in 1 .. m : k \in 1 .. m + 1 BY <1>3
    <3>2. \A k \in 1 .. m : g[k] = archive[a + k].len /\ archive[a + k].len \in Nat BY <1>7, <1>w, <3>1
    <3> QED BY <1>3, <3>2 DEF HasLen
  <2>g. g = [i \in 1 .. m |-> g[i]] OBVIOUS
  <2>c. CompressedOffset(b) = full.base_offset + FoldLeft(+, 0, g) BY <1>c
  <2> HIDE DEF g
  <2>2. /\ sum(0) = 0 /\ \A k \in 0 .. m : sum(k) \in Nat
        /\ \A k \in 1 .. m : sum(k) = sum(k - 1) + g[k]
    BY <1>3, <2>1, FoldedSums
  <2>z. CompressedOffset(b) = full.base_offset + sum(m) BY <2>c, <2>g
  <2> HIDE DEF sum
  <2>3. 0 \in D
    <3>1. archive[a + 1].at \in Nat /\ a + 1 + 0 = a + 1 /\ 0 \in Nat
      <4>1. 1 \in 1 .. m + 1 BY <1>3
      <4> QED BY <1>4, <1>7, <1>w, <4>1
    <3> QED BY <2>2, <3>1
  <2>4. ASSUME NEW k \in Nat, k \in D PROVE k + 1 \in D
    <3> SUFFICES ASSUME k + 1 <= m PROVE archive[a + 1].at + sum(k + 1) = archive[a + 1 + (k + 1)].at
      OBVIOUS
    <3>1. k <= m /\ k + 1 \in 1 .. m /\ k + 1 \in 1 .. m + 1 /\ k + 2 \in 1 .. m + 1 /\ (k + 1) - 1 = k
          /\ k \in 0 .. m /\ 1 \in 1 .. m + 1
      BY <1>3
    <3>2. archive[a + 1].at + sum(k) = archive[a + 1 + k].at BY <2>4, <3>1
    <3>3. sum(k + 1) = sum(k) + archive[a + (k + 1)].len /\ sum(k) \in Nat BY <2>1, <2>2, <3>1
    <3>4. a + (k + 1) = a + 1 + k /\ a + (k + 2) = a + 1 + (k + 1) /\ (a + (k + 1)) + 1 = a + (k + 2)
      BY <1>4
    <3>5. archive[a + (k + 1)].at + archive[a + (k + 1)].len = archive[a + (k + 2)].at
      BY <1>7, <1>w, <3>1, <3>4
    <3>6. /\ archive[a + 1].at \in Nat /\ archive[a + (k + 1)].len \in Nat
          /\ archive[a + (k + 1)].at \in Nat
      BY <1>7, <1>w, <3>1
    <3> QED BY <3>2, <3>3, <3>4, <3>5, <3>6
  <2> HIDE DEF D
  <2>5. Nat \subseteq D BY <2>3, <2>4, NatInduct
  <2>6. archive[a + 1].at + sum(m) = archive[a + 1 + m].at BY <1>3, <2>5 DEF D
  <2>7. a + 1 + m = b + 1 BY <1>3, <1>4
  <2> QED BY <1>6, <1>r, <2>6, <2>7, <2>z
<1>10. ReadAt(CompressedOffset(b), StoredLen(b)) = item BY <1>1, <1>8, <1>9, <1>b, ItemFound
<1>11. /\ item.what = BlockOf(b)
       /\ item.kind = IF item.len = BlockBytes THEN "raw" ELSE "zstd"
  <2>1. (b + 1) - 1 = b BY <1>4
  <2> QED BY <1>1, <1>b, <2>1 DEF BlocksInv
<1>12. Len(BlockOf(b)) = BlockBytes
  <2>1. HasLen(BlockOf(b), BlockBytes) BY <1>1 DEF HasLen, BlockOf
  <2> QED BY <2>1, SequenceLength
<1> QED BY <1>8, <1>10, <1>11, <1>12 DEF Decoded

-----------------------------------------------------------------------------
(* The reader                                                                *)

\* A reader is open on a finished archive alone, lists what its directory
\* says, and has nothing cached but what a block is to hold.
ZarReaderInv ==
  /\ reader \in {"closed", "open"}
  /\ reader = "closed" => listed = <<>> /\ cached_block = NoBlock /\ answer = NoAnswer
  /\ reader = "open" => ArchiveDone /\ call = 0 /\ listed = ListingOf(files).files
  /\ \/ cached_block = NoBlock
     \/ \E b \in 0 .. blocks_written - 1 : cached_block = [index |-> b, data |-> BlockOf(b)]

ZarInv == WriterInv /\ ZarReaderInv

\* In the beginning.
LEMMA ZarInvInitially ==
  ASSUME ZarInit
  PROVE  ZarInv
<1>1. WriterInv BY WriterBegins DEF ZarInit
<1>2. ZarReaderInv BY DEF ZarInit, ZarReaderInv
<1> QED BY <1>1, <1>2 DEF ZarInv

\* Where a range that can be read lies.
LEMMA RangePlaced ==
  ASSUME ZarInv, reader = "open", NEW file \in DOMAIN listed,
         NEW offset \in Nat, NEW len \in Nat \ {0}, InFileBounds(file, offset, len)
  PROVE  /\ listed[file].offset \in Nat /\ listed[file].size \in Nat
         /\ listed[file].offset + listed[file].size <= SourceSize
         /\ offset + len <= listed[file].size
         /\ SourceSize <= blocks_written * BlockBytes
<1>1. WriterInv /\ InputInv /\ ArchiveDone /\ listed = ListingOf(files).files
  BY DEF ZarInv, ZarReaderInv, WriterInv
<1>2. phase = "Done" /\ ~BeforeFlush BY <1>1 DEF ArchiveDone, BeforeFlush
<1>3. RoundTrip(files, listed) BY <1>1, <1>2, PlanOfFiles DEF DirectoryPlanned
<1>4. PICK f \in DOMAIN files : /\ listed[file].size = files[f].size
                                /\ listed[file].offset = FileStart(files, f)
  <2>1. PICK from \in [DOMAIN listed -> DOMAIN files] :
      \A i \in DOMAIN listed : /\ listed[i].size = files[from[i]].size
                               /\ listed[i].offset = FileStart(files, from[i])
    BY <1>3 DEF RoundTrip
  <2>2. from[file] \in DOMAIN files OBVIOUS
  <2> QED BY <2>1, <2>2
<1>5. files \in Seq(FileEntry) /\ Len(files) \in Nat /\ \A h \in 1 .. Len(files) : files[h].size \in Nat
  BY <1>1, ListingTyped
<1>6. f \in 1 .. Len(files) /\ f \in 1 .. Len(files) + 1 /\ f + 1 \in 1 .. Len(files) + 1
      /\ Len(files) + 1 \in 1 .. Len(files) + 1
  BY <1>5
<1>7. /\ FileStart(files, f) \in Nat /\ files[f].size \in Nat
      /\ FileStart(files, f + 1) = FileStart(files, f) + files[f].size
      /\ FileStart(files, f + 1) <= SourceSize
  BY <1>5, <1>6, FileStarts, FileStartsRise DEF SourceSize
<1>8. SourceSize <= blocks_written * BlockBytes BY <1>1, <1>2 DEF InputInv
<1> QED BY <1>4, <1>7, <1>8 DEF InFileBounds

\* The block of a byte of the source.
LEMMA ByteBlock ==
  ASSUME WriterInv, NEW j \in Nat, j < SourceSize, SourceSize <= blocks_written * BlockBytes
  PROVE  /\ j \div BlockBytes \in 0 .. blocks_written - 1
         /\ BlockOf(j \div BlockBytes)[(j % BlockBytes) + 1] = SourceBytes[j + 1]
<1> DEFINE B == BlockBytes
           q == j \div B
           m == j % B
<1>1. B \in Nat \ {0} /\ blocks_written \in Nat /\ SourceSize \in Nat
  BY Sizes, ListingTyped DEF WriterInv, InputInv
<1>2. q \in Nat /\ m \in 0 .. B - 1 /\ j = q * B + m BY <1>1, DivMod
<1>3. BlockOf(q) = [i \in 1 .. B |-> IF q * B + i \in 1 .. SourceSize
    THEN SourceBytes[q * B + i] ELSE ZeroByte]
  BY DEF BlockOf
<1>t. SourceSize <= blocks_written * B OBVIOUS
<1> HIDE DEF q, m, B
<1>4. q < blocks_written
  <2> SUFFICES ASSUME blocks_written <= q PROVE FALSE BY <1>1, <1>2
  <2>1. blocks_written * B <= q * B BY <1>1, <1>2, MultMonotonic
  <2> DEFINE x == blocks_written * B
             y == q * B
  <2>2. x \in Nat /\ y \in Nat /\ x <= y /\ j = y + m /\ SourceSize <= x BY <1>1, <1>2, <1>t, <2>1
  <2> HIDE DEF x, y
  <2> QED BY <1>1, <1>2, <2>2
<1>5. m + 1 \in 1 .. B /\ q * B + (m + 1) = j + 1 /\ j + 1 \in 1 .. SourceSize
  <2>1. q * B \in Nat BY <1>1, <1>2
  <2> QED BY <1>1, <1>2, <2>1
<1>6. BlockOf(q)[m + 1] = SourceBytes[j + 1] BY <1>3, <1>5
<1>7. q \in 0 .. blocks_written - 1 BY <1>1, <1>2, <1>4
<1> QED BY <1>6, <1>7 DEF q, m, B

\* A block, cached or not, is what it is to be.
LEMMA BlockDataRight ==
  ASSUME ZarInv, reader = "open", NEW b \in 0 .. blocks_written - 1
  PROVE  BlockData(b) = BlockOf(b) /\ BlockData(b) # Undecodable
<1>1. BlockOf(b) # <<>>
  <2>1. BlockBytes \in Nat \ {0} BY Sizes
  <2>2. HasLen(BlockOf(b), BlockBytes) BY <2>1 DEF HasLen, BlockOf
  <2>3. Len(BlockOf(b)) = BlockBytes /\ Len(<<>>) = 0 BY <2>2, SequenceLength
  <2> QED BY <2>1, <2>3
<1>2. Decoded(b) = BlockOf(b) BY BlockDecodes DEF ZarInv, ZarReaderInv
<1>3. CASE ~CacheServes(b) BY <1>1, <1>2, <1>3 DEF BlockData, Undecodable
<1>4. CASE CacheServes(b)
  <2>1. cached_block.index = b /\ b # -1 BY <1>4 DEF CacheServes
  <2>2. cached_block # NoBlock BY <2>1 DEF NoBlock
  <2>3. PICK c \in 0 .. blocks_written - 1 : cached_block = [index |-> c, data |-> BlockOf(c)]
    BY <2>2 DEF ZarInv, ZarReaderInv
  <2>4. cached_block.data = BlockOf(b) BY <2>1, <2>3
  <2> QED BY <1>1, <1>4, <2>4 DEF BlockData, Undecodable
<1> QED BY <1>3, <1>4

\* The blocks of a range are blocks of the archive.
LEMMA RangeBlocks ==
  ASSUME ZarInv, reader = "open", NEW file \in DOMAIN listed,
         NEW offset \in Nat, NEW len \in Nat \ {0}, InFileBounds(file, offset, len)
  PROVE  /\ HasLen(BlocksOf(file, offset, len), Len(BlocksOf(file, offset, len)))
         /\ Len(BlocksOf(file, offset, len)) # 0
         /\ \A i \in DOMAIN BlocksOf(file, offset, len) :
              BlocksOf(file, offset, len)[i] \in 0 .. blocks_written - 1
<1> DEFINE from == listed[file].offset + offset
           upto == from + len - 1
           B == BlockBytes
           n == (upto \div B) - (from \div B) + 1
           touched == BlocksOf(file, offset, len)
<1>1. /\ listed[file].offset \in Nat /\ listed[file].size \in Nat /\ SourceSize \in Nat
      /\ listed[file].offset + listed[file].size <= SourceSize
      /\ offset + len <= listed[file].size
      /\ SourceSize <= blocks_written * B /\ B \in Nat \ {0} /\ blocks_written \in Nat
  BY RangePlaced, Sizes, ListingTyped DEF ZarInv, WriterInv, InputInv
<1>2. from \in Nat /\ upto \in Nat /\ from <= upto /\ upto < SourceSize
  <2> DEFINE o == listed[file].offset
             z == listed[file].size
  <2>1. /\ o \in Nat /\ z \in Nat /\ SourceSize \in Nat /\ o + z <= SourceSize /\ offset + len <= z
        /\ from = o + offset /\ upto = from + len - 1
    BY <1>1
  <2> HIDE DEF o, z, from, upto
  <2> QED BY <2>1
<1>3. touched = [i \in 1 .. n |-> (from \div B) + i - 1] BY DEF BlocksOf
<1> HIDE DEF from, upto
<1>4. upto \div B \in 0 .. blocks_written - 1 BY <1>1, <1>2, ByteBlock DEF ZarInv
<1>5. from \div B <= upto \div B /\ from \div B \in Nat BY <1>1, <1>2, DivMonotonic, DivMod
<1> DEFINE u == upto \div B
           v == from \div B
<1>6. u \in 0 .. blocks_written - 1 /\ v \in Nat /\ v <= u /\ n = u - v + 1 BY <1>4, <1>5
<1>7. touched = [i \in 1 .. n |-> v + i - 1] BY <1>3
<1> HIDE DEF u, v, n, touched
<1>8. n \in Nat \ {0} /\ \A i \in 1 .. n : v + i - 1 \in 0 .. blocks_written - 1 BY <1>1, <1>6
<1>9. HasLen(touched, n) /\ \A i \in 1 .. n : touched[i] = v + i - 1 BY <1>7, <1>8 DEF HasLen
<1>10. Len(touched) = n /\ DOMAIN touched = 1 .. n BY <1>9, SequenceLength
<1> QED BY <1>8, <1>9, <1>10 DEF touched

\* A range that can be read is that range of the source.
LEMMA RangeRight ==
  ASSUME ZarInv, reader = "open", NEW file \in DOMAIN listed,
         NEW offset \in Nat, NEW len \in Nat \ {0}, InFileBounds(file, offset, len)
  PROVE  RangeBytes(file, offset, len)
           = [k \in 1 .. len |-> SourceBytes[listed[file].offset + offset + k]]
<1> DEFINE from == listed[file].offset + offset
<1>1. /\ listed[file].offset \in Nat /\ listed[file].size \in Nat /\ SourceSize \in Nat
      /\ listed[file].offset + listed[file].size <= SourceSize
      /\ offset + len <= listed[file].size
      /\ SourceSize <= blocks_written * BlockBytes
  BY RangePlaced, ListingTyped DEF ZarInv, WriterInv, InputInv
<1>2. from \in Nat /\ from + len <= SourceSize BY <1>1
<1>3. RangeBytes(file, offset, len)
    = [k \in 1 .. len |-> BlockData((from + k - 1) \div BlockBytes)[((from + k - 1) % BlockBytes) + 1]]
  BY DEF RangeBytes
<1> HIDE DEF from
<1>4. ASSUME NEW k \in 1 .. len
      PROVE  BlockData((from + k - 1) \div BlockBytes)[((from + k - 1) % BlockBytes) + 1]
               = SourceBytes[from + k]
  <2> DEFINE j == from + k - 1
  <2>1. j \in Nat /\ j < SourceSize /\ j + 1 = from + k BY <1>1, <1>2
  <2> HIDE DEF j
  <2>2. j \div BlockBytes \in 0 .. blocks_written - 1
        /\ BlockOf(j \div BlockBytes)[(j % BlockBytes) + 1] = SourceBytes[j + 1]
    BY <1>1, <2>1, ByteBlock DEF ZarInv
  <2>3. BlockData(j \div BlockBytes) = BlockOf(j \div BlockBytes) BY <2>2, BlockDataRight
  <2>4. BlockData(j \div BlockBytes)[(j % BlockBytes) + 1] = SourceBytes[from + k] BY <2>1, <2>2, <2>3
  <2> QED BY <2>4 DEF j
<1>5. RangeBytes(file, offset, len) = [k \in 1 .. len |-> SourceBytes[from + k]] BY <1>3, <1>4
<1> QED BY <1>5 DEF from

\* open() lists the directory.
LEMMA OpenStep ==
  ASSUME ZarInv, OpenReader
  PROVE  ZarInv' /\ reader' = "open" /\ listed' = ListingOf(files).files
<1>1. /\ WriterInv /\ ZarReaderInv /\ ArchiveDone /\ reader = "closed" /\ call = 0
      /\ UNCHANGED writerVars /\ cached_block' = cached_block /\ answer' = answer
  BY DEF ZarInv, OpenReader
<1>2. Acceptable /\ Directory = ListingOf(files) /\ phase = "Done" BY <1>1, ArchiveOpens
<1>3. ListingOf(files).ok BY <1>1, <1>2, PlanOfFiles DEF DirectoryPlanned
<1>4. reader' = "open" /\ listed' = ListingOf(files).files BY <1>2, <1>3 DEF OpenReader
<1>5. WriterInv' /\ files' = files /\ call' = call /\ ArchiveDone'
  BY <1>1, WriterFrozen DEF writerVars, sessionVars, planVars, ArchiveDone
<1>6. cached_block' = NoBlock BY <1>1 DEF ZarReaderInv
<1>7. ListingOf(files)' = ListingOf(files) BY <1>5
<1>8. ZarReaderInv' BY <1>1, <1>4, <1>5, <1>6, <1>7 DEF ZarReaderInv
<1> QED BY <1>4, <1>5, <1>8 DEF ZarInv

\* A read leaves a block of the archive in the cache, or none.
LEMMA ReadStepKeeps ==
  ASSUME ZarInv, NEW file \in DOMAIN listed, NEW offset \in ReadOffsets, NEW len \in ReadLengths,
         ReadStep(file, offset, len)
  PROVE  ZarInv' /\ reader = "open" /\ reader' = "open" /\ listed' = listed /\ files' = files
<1>1. WriterInv /\ ZarReaderInv /\ offset \in Nat /\ len \in Nat \ {0} BY ZarReaderAssumption DEF ZarInv
<1>2. reader = "open" /\ reader' = reader /\ listed' = listed /\ UNCHANGED writerVars
  BY DEF ReadStep, ReadFileRange, ReadPastEnd, BlockReadFails
<1>3. WriterInv' /\ files' = files /\ call' = call /\ ArchiveDone' = ArchiveDone
      /\ blocks_written' = blocks_written
  BY <1>1, <1>2, WriterFrozen DEF writerVars, sessionVars, planVars, ArchiveDone
<1>4. \A b : BlockOf(b)' = BlockOf(b) BY <1>3, SourceStays
<1> DEFINE IsCached(block) ==
             \/ block = NoBlock
             \/ \E b \in 0 .. blocks_written - 1 : block = [index |-> b, data |-> BlockOf(b)]
           touched == BlocksOf(file, offset, len)
<1>5. IsCached(cached_block) BY <1>1 DEF ZarReaderInv
<1>6. ASSUME InFileBounds(file, offset, len)
      PROVE  /\ \A i \in DOMAIN touched : touched[i] \in 0 .. blocks_written - 1
             /\ HasLen(touched, Len(touched)) /\ Len(touched) # 0
  BY <1>1, <1>2, <1>6, RangeBlocks
<1>7. ASSUME NEW b \in 0 .. blocks_written - 1
      PROVE  IsCached([index |-> b, data |-> BlockData(b)])
  BY <1>2, <1>7, BlockDataRight
<1> HIDE DEF touched, IsCached
<1>8. IsCached(cached_block')
  <2>1. CASE ReadFileRange(file, offset, len)
    <3>1. InFileBounds(file, offset, len) /\ (cached_block' = NoBlock \/ Cache(Last(touched)))
      BY <2>1 DEF ReadFileRange, touched
    <3>2. Last(touched) \in 0 .. blocks_written - 1
      <4>1. Len(touched) \in DOMAIN touched BY <1>6, <3>1 DEF HasLen
      <4> QED BY <1>6, <3>1, <4>1 DEF Last
    <3>3. CASE cached_block' = NoBlock BY <3>3 DEF IsCached
    <3>4. CASE Cache(Last(touched)) BY <1>7, <3>2, <3>4 DEF Cache
    <3> QED BY <3>1, <3>3, <3>4
  <2>2. CASE ReadPastEnd(file, offset, len) BY <1>5, <2>2 DEF ReadPastEnd
  <2>3. ASSUME NEW i \in 1 .. len, BlockReadFails(file, offset, len, i) PROVE IsCached(cached_block')
    <3>1. InFileBounds(file, offset, len) /\ i \in DOMAIN touched
          /\ cached_block' = CacheBeforeBlock(touched, i)
      BY <2>3 DEF BlockReadFails, touched
    <3>2. CASE i = 1 BY <1>5, <3>1, <3>2 DEF CacheBeforeBlock
    <3>3. CASE i # 1
      <4>1. i - 1 \in DOMAIN touched BY <1>1, <1>6, <3>1, <3>3 DEF HasLen
      <4>2. touched[i - 1] \in 0 .. blocks_written - 1 BY <1>6, <3>1, <4>1
      <4> QED BY <1>7, <3>1, <3>3, <4>2 DEF CacheBeforeBlock
    <3> QED BY <3>2, <3>3
  <2> QED BY <2>1, <2>2, <2>3 DEF ReadStep
<1>9. \/ cached_block' = NoBlock
      \/ \E b \in 0 .. blocks_written' - 1 : cached_block' = [index |-> b, data |-> BlockOf(b)']
  BY <1>3, <1>4, <1>8 DEF IsCached
<1>10. ListingOf(files)' = ListingOf(files) BY <1>3
<1>11. ZarReaderInv'
  <2>1. ArchiveDone /\ call = 0 /\ listed = ListingOf(files).files BY <1>1, <1>2 DEF ZarReaderInv
  <2> QED BY <1>2, <1>3, <1>9, <1>10, <2>1 DEF ZarReaderInv
<1> QED BY <1>2, <1>3, <1>11 DEF ZarInv

\* While the writer works no reader is open.
LEMMA WriterStepKeeps ==
  ASSUME ZarInv, (WriterCall \/ FileReadFails) /\ UNCHANGED zarReaderVars
  PROVE  ZarInv' /\ reader = "closed" /\ listed' = listed /\ answer' = answer /\ reader' = reader
<1>1. WriterInv /\ ZarReaderInv /\ WriterInv' BY WriterStep DEF ZarInv
<1>2. reader' = reader /\ listed' = listed /\ cached_block' = cached_block /\ answer' = answer
  BY DEF zarReaderVars
<1>3. reader # "open"
  <2> SUFFICES ASSUME ArchiveDone, call = 0 PROVE FALSE BY <1>1 DEF ZarReaderInv
  <2> QED
    BY DEF WriterCall, Advance, FlushBlocks, SkipFile, ReadFile, InFile, Streaming, Advancing, AlignPad,
       OffsetRecords, NameTableSection, FileTreeSection, Footer, Section, ReturnChunk, BeginCall,
       FileReadFails
<1>4. reader = "closed" /\ listed = <<>> /\ cached_block = NoBlock /\ answer = NoAnswer
  BY <1>1, <1>3 DEF ZarReaderInv
<1>5. ZarReaderInv' BY <1>2, <1>4 DEF ZarReaderInv
<1> QED BY <1>1, <1>2, <1>4, <1>5 DEF ZarInv

\* Nothing changes.
LEMMA FrozenStep ==
  ASSUME ZarInv, UNCHANGED zarVars
  PROVE  ZarInv'
<1>1. WriterInv /\ ZarReaderInv /\ WriterInv' BY WriterFrozen DEF ZarInv, zarVars
<1>2. /\ reader' = reader /\ listed' = listed /\ cached_block' = cached_block /\ answer' = answer
      /\ files' = files /\ blocks_written' = blocks_written /\ phase' = phase
      /\ pending_output' = pending_output /\ call' = call
  BY DEF zarVars, zarReaderVars, writerVars, sessionVars, planVars
<1>3. \A b : BlockOf(b)' = BlockOf(b) BY <1>2, SourceStays
<1>4. ListingOf(files)' = ListingOf(files) /\ ArchiveDone' = ArchiveDone BY <1>2 DEF ArchiveDone
<1>5. ZarReaderInv' BY <1>1, <1>2, <1>3, <1>4 DEF ZarReaderInv
<1> QED BY <1>1, <1>5 DEF ZarInv

\* Every step of writer and reader keeps the invariant.
LEMMA ZarInvKept ==
  ASSUME ZarInv, [ZarNext]_zarVars
  PROVE  ZarInv'
<1>1. CASE (WriterCall \/ FileReadFails) /\ UNCHANGED zarReaderVars BY <1>1, WriterStepKeeps
<1>2. CASE OpenReader BY <1>2, OpenStep
<1>3. ASSUME NEW file \in DOMAIN listed, NEW offset \in ReadOffsets, NEW len \in ReadLengths,
             ReadStep(file, offset, len)
      PROVE  ZarInv'
  BY <1>3, ReadStepKeeps
<1>4. CASE UNCHANGED zarVars BY <1>4, FrozenStep
<1> QED BY <1>1, <1>2, <1>3, <1>4 DEF ZarNext, Ended

\* What is in the buffer, the blocks and the sections is what the files read so far
\* and the listing make of them, through every call and every read that throws.
THEOREM ZarInvariant == ZarSpec => []ZarInv
<1>1. ZarInit => ZarInv BY ZarInvInitially
<1>2. ZarInv /\ [ZarNext]_zarVars => ZarInv' BY ZarInvKept
<1> QED BY <1>1, <1>2, PTL DEF ZarSpec

-----------------------------------------------------------------------------
(* The properties                                                            *)

\* What was read is what is counted.
LEMMA ProgressHolds ==
  ASSUME WriterInv
  PROVE  ProgressIsBytesRead
<1> DEFINE n == blocks_written * BlockBytes + Len(block_buffer)
           st == FileStart(files, current_file) + current_file_pos
<1>1. /\ InputInv /\ files \in Seq(FileEntry) /\ SourceSize \in Nat /\ Len(files) \in Nat
      /\ total_input_bytes \in Nat /\ BlockBytes \in Nat \ {0}
      /\ (phase # "refused" => total_input_bytes = SourceSize)
  BY ListingTyped, PlanOfFiles, Sizes DEF WriterInv
<1>2. blocks_written \in Nat /\ block_buffer \in Seq(Byte) /\ current_file \in 1 .. Len(files) + 1
      /\ current_file_pos \in Nat
  BY <1>1 DEF InputInv
<1>3. n \in Nat BY <1>1, <1>2
<1>4. UnitsDone = IF n <= total_input_bytes THEN n ELSE total_input_bytes
  BY <1>1, <1>3, MinPair DEF UnitsDone
<1>5. st \in Nat /\ st <= SourceSize
  <2>1. CASE current_file <= Len(files)
    <3>1. /\ FileStart(files, current_file) \in Nat
          /\ FileStart(files, current_file + 1)
               = FileStart(files, current_file) + files[current_file].size
          /\ FileStart(files, current_file + 1) <= SourceSize
          /\ current_file_pos <= files[current_file].size
      BY <1>1, <2>1, FileFits DEF InputInv
    <3>2. files[current_file].size \in Nat BY <1>1, <1>2, <2>1, ListingTyped
    <3> QED BY <1>1, <1>2, <3>1, <3>2, SMTT(30)
  <2>2. CASE ~(current_file <= Len(files))
    <3>1. current_file = Len(files) + 1 /\ current_file_pos = 0 BY <1>1, <1>2, <2>2 DEF InputInv
    <3> QED BY <1>1, <3>1 DEF SourceSize
  <2> QED BY <2>1, <2>2
<1>6. CASE phase = "refused"
  <2>1. BeforeFlush BY <1>6 DEF BeforeFlush
  <2>2. n = st BY <1>1, <2>1 DEF InputInv
  <2>3. current_file = 1 /\ current_file_pos = 0 /\ FileStart(files, 1) = 0
    BY <1>1, <1>6, FileStarts DEF WriterInv, CallInv
  <2>4. st = 0 BY <2>3
  <2> HIDE DEF n, st
  <2>5. UnitsDone = st BY <1>1, <1>4, <2>2, <2>4
  <2> QED BY <2>5 DEF st, ProgressIsBytesRead
<1>7. CASE phase = "Streaming"
  <2>1. n = st /\ total_input_bytes = SourceSize BY <1>1, <1>7 DEF InputInv, BeforeFlush
  <2> HIDE DEF n, st
  <2>2. UnitsDone = st BY <1>1, <1>3, <1>4, <1>5, <2>1
  <2> QED BY <2>2 DEF st, ProgressIsBytesRead
<1>8. CASE ~BeforeFlush
  <2>1. /\ current_file = Len(files) + 1 /\ block_buffer = <<>> /\ current_file_pos = 0
        /\ SourceSize <= blocks_written * BlockBytes /\ total_input_bytes = SourceSize
    BY <1>1, <1>8 DEF InputInv, BeforeFlush
  <2>2. n = blocks_written * BlockBytes /\ st = SourceSize BY <1>1, <1>2, <2>1 DEF SourceSize
  <2> HIDE DEF n, st
  <2>3. UnitsDone = st BY <1>1, <1>3, <1>4, <2>1, <2>2
  <2> QED BY <2>3 DEF st, ProgressIsBytesRead
<1> QED BY <1>6, <1>7, <1>8 DEF BeforeFlush

\* A block consists of bytes.
LEMMA BlockTyped ==
  ASSUME InputInv, NEW b
  PROVE  BlockOf(b) \in Seq(Byte)
<1>1. SourceLaidOut /\ BlockBytes \in Nat \ {0} BY ListingTyped, Sizes
<1>2. HasLen(BlockOf(b), BlockBytes) BY <1>1 DEF HasLen, BlockOf
<1>3. ASSUME NEW i \in 1 .. BlockBytes PROVE BlockOf(b)[i] \in Byte
  <2>1. BlockOf(b)[i] = IF b * BlockBytes + i \in 1 .. SourceSize
      THEN SourceBytes[b * BlockBytes + i] ELSE ZeroByte
    BY DEF BlockOf
  <2>2. ZeroByte \in Byte BY DEF ZeroByte, Byte
  <2>3. \A j \in 1 .. SourceSize : SourceBytes[j] \in Byte BY <1>1 DEF SourceLaidOut, SourceSize
  <2> QED BY <2>1, <2>2, <2>3
<1> QED BY <1>2, <1>3, SequenceIsSeq

\* The invariant types the variables.
LEMMA ZarTyped ==
  ASSUME ZarInv
  PROVE  ZarTypeOK
<1>1. WriterInv /\ ZarReaderInv /\ InputInv /\ RecordsInv /\ CallInv BY DEF ZarInv, WriterInv
<1>2. \A i \in DOMAIN offset_records :
    /\ offset_records[i].base_offset \in Nat
    /\ offset_records[i].sizes \in Seq(0 .. BlockBytes - 1)
    /\ Len(offset_records[i].sizes) \in 1 .. EntriesPerRecord
  <2>1. \A i \in DOMAIN offset_records :
      offset_records[i] \in RecordSet /\ Len(offset_records[i].sizes) \in 1 .. EntriesPerRecord
    BY <1>1 DEF RecordsInv, IsRecord, HasLen
  <2> QED BY <2>1 DEF RecordSet
<1>3. cached_block = NoBlock \/ (cached_block.index \in Nat /\ cached_block.data \in Seq(Byte))
  <2>1. CASE cached_block = NoBlock BY <2>1
  <2>2. ASSUME NEW b \in 0 .. blocks_written - 1, cached_block = [index |-> b, data |-> BlockOf(b)]
        PROVE  cached_block.index \in Nat /\ cached_block.data \in Seq(Byte)
    BY <1>1, <2>2, BlockTyped DEF InputInv
  <2> QED BY <1>1, <2>1, <2>2 DEF ZarReaderInv
<1> QED BY <1>1, <1>2, <1>3 DEF ZarTypeOK, InputInv, CallInv, ZarReaderInv, Phases

\* Every block is found through its record, whatever it was stored as.
LEMMA BlocksDecode ==
  ASSUME ZarInv
  PROVE  EveryBlockDecodes
<1> SUFFICES ASSUME reader = "open", NEW b \in 0 .. blocks_written - 1
    PROVE  Decoded(b) = [i \in 1 .. BlockBytes |->
                           IF b * BlockBytes + i \in DOMAIN SourceBytes
                           THEN SourceBytes[b * BlockBytes + i] ELSE ZeroByte]
  BY DEF EveryBlockDecodes
<1>1. DOMAIN SourceBytes = 1 .. SourceSize
  BY ListingTyped DEF ZarInv, WriterInv, SourceLaidOut, SourceSize, HasLen
<1>2. Decoded(b) = BlockOf(b) BY BlockDecodes DEF ZarInv, ZarReaderInv
<1> QED BY <1>1, <1>2 DEF BlockOf

\* In every state the session and its archive are sound: the bytes counted
\* are those read, every byte is handed over once and every block is found.
THEOREM ArchiveIsSound == ZarSpec => []ArchiveSound
<1>1. ZarInv => ArchiveSound
  <2> SUFFICES ASSUME ZarInv PROVE ArchiveSound OBVIOUS
  <2>1. ManifestIsWhatArrives
    BY DEF ZarInv, WriterInv, CallInv, ManifestIsWhatArrives, ArchiveDone, OutputManifest
  <2>2. WriterInv BY DEF ZarInv
  <2> QED BY <2>1, <2>2, ZarTyped, ProgressHolds, BlocksDecode DEF ArchiveSound
<1> QED BY <1>1, ZarInvariant, PTL

\* A listing is refused exactly if its paths clash, and any other comes back.
THEOREM DirectoryComesBack == ZarSpec => []DirectoryRoundTrips
<1>1. ZarInv => DirectoryRoundTrips
  <2> SUFFICES ASSUME ZarInv PROVE ListingRoundTrips /\ RefusedExactlyIfAmbiguous
    BY DEF DirectoryRoundTrips
  <2>1. WriterInv /\ ZarReaderInv /\ DirectoryPlanned(files) BY PlanOfFiles DEF ZarInv
  <2>2. ASSUME reader = "open" PROVE RoundTrip(files, listed)
    BY <2>1, <2>2, PlanOfFiles DEF ZarReaderInv, DirectoryPlanned, ArchiveDone
  <2>3. ListingRoundTrips
    <3>1. reader # "rejected" BY <2>1 DEF ZarReaderInv
    <3>2. ASSUME reader = "open" PROVE Len(listed) = Len(files)
      BY <2>2, <3>2, SequenceLength DEF RoundTrip
    <3> QED BY <2>2, <3>1, <3>2 DEF ListingRoundTrips, RoundTrip
  <2>4. (phase = "refused") <=> Clashes(files) BY <2>1, PlanOfFiles DEF DirectoryPlanned
  <2>5. RefusedExactlyIfAmbiguous BY <2>4 DEF RefusedExactlyIfAmbiguous, Clashes, Folded
  <2> QED BY <2>3, <2>5
<1> QED BY <1>1, ZarInvariant, PTL

-----------------------------------------------------------------------------
(* The reader implements FileStore                                           *)

\* Bytes as FileStore has them.
LEMMA NumberTyped ==
  ASSUME NEW s, NEW n, HasLen(s, n), \A i \in 1 .. n : s[i] \in Byte
  PROVE  /\ HasLen(Number(s), n)
         /\ \A i \in 1 .. n : /\ Number(s)[i] = s[i].file * (Word * Half) + s[i].pos
                              /\ Number(s)[i] \in Int
<1>1. DOMAIN s = 1 .. n /\ n \in Nat BY DEF HasLen
<1>2. \A i \in 1 .. n : s[i].file \in Nat /\ s[i].pos \in Nat BY DEF Byte
<1>3. Word \in Nat /\ Half \in Nat BY ZarLayoutAssumption
<1>4. Word * Half \in Nat BY <1>3
<1> DEFINE w == Word * Half
<1>5. Number(s) = [i \in 1 .. n |-> s[i].file * w + s[i].pos] BY <1>1 DEF Number
<1>6. w \in Nat BY <1>4
<1> HIDE DEF w
<1>7. \A i \in 1 .. n : s[i].file * w + s[i].pos \in Int BY <1>2, <1>6
<1>8. HasLen(Number(s), n) /\ \A i \in 1 .. n : Number(s)[i] = s[i].file * w + s[i].pos
  BY <1>1, <1>5 DEF HasLen
<1> QED BY <1>7, <1>8 DEF w

\* The range of the source a listed file is.
StoreRange(i) == SubSeq(SourceBytes, listed[i].offset + 1, listed[i].offset + listed[i].size)

\* The file listed i-th is a range of the source.
LEMMA StoreRangeTyped ==
  ASSUME ZarInv, reader = "open", NEW i \in DOMAIN listed
  PROVE  /\ listed[i].offset \in Nat /\ listed[i].size \in Nat
         /\ listed[i].offset + listed[i].size <= SourceSize /\ SourceSize \in Nat
         /\ HasLen(StoreRange(i), listed[i].size)
         /\ \A k \in 1 .. listed[i].size : /\ StoreRange(i)[k] = SourceBytes[listed[i].offset + k]
                                           /\ StoreRange(i)[k] \in Byte
<1> DEFINE o == listed[i].offset
           z == listed[i].size
<1>1. /\ WriterInv /\ InputInv /\ SourceLaidOut /\ SourceSize \in Nat
  BY ListingTyped DEF ZarInv, WriterInv
<1>2. o \in Nat /\ z \in Nat /\ o + z <= SourceSize
  <2>1. RoundTrip(files, listed)
    BY <1>1, PlanOfFiles DEF ZarInv, ZarReaderInv, DirectoryPlanned, ArchiveDone
  <2>2. PICK f \in DOMAIN files : z = files[f].size /\ o = FileStart(files, f)
    <3>1. PICK from \in [DOMAIN listed -> DOMAIN files] :
        \A j \in DOMAIN listed : /\ listed[j].size = files[from[j]].size
                                 /\ listed[j].offset = FileStart(files, from[j])
      BY <2>1 DEF RoundTrip
    <3>2. from[i] \in DOMAIN files OBVIOUS
    <3> QED BY <3>1, <3>2
  <2>3. files \in Seq(FileEntry) /\ Len(files) \in Nat /\ \A h \in 1 .. Len(files) : files[h].size \in Nat
    BY <1>1, ListingTyped
  <2>4. f \in 1 .. Len(files) /\ f \in 1 .. Len(files) + 1 /\ f + 1 \in 1 .. Len(files) + 1
        /\ Len(files) + 1 \in 1 .. Len(files) + 1
    BY <2>3
  <2>5. /\ FileStart(files, f) \in Nat /\ files[f].size \in Nat
        /\ FileStart(files, f + 1) = FileStart(files, f) + files[f].size
        /\ FileStart(files, f + 1) <= SourceSize
    BY <2>3, <2>4, FileStarts, FileStartsRise DEF SourceSize
  <2> QED BY <2>2, <2>5
<1>3. StoreRange(i) = SubSeq(SourceBytes, o + 1, o + z) BY DEF StoreRange
<1> HIDE DEF o, z
<1>4. HasLen(SourceBytes, SourceSize) /\ \A j \in 1 .. SourceSize : SourceBytes[j] \in Byte
  BY <1>1 DEF SourceLaidOut, SourceSize
<1>5. o + 1 \in 1 .. SourceSize + 1 /\ o + z \in (o + 1) - 1 .. SourceSize
      /\ (o + z) - (o + 1) + 1 = z
  BY <1>1, <1>2
<1>6. IsSlice(StoreRange(i), SourceBytes, o + 1, o + z) BY <1>3, <1>4, <1>5, SubSeqIsSlice
<1>7. /\ HasLen(StoreRange(i), z)
      /\ \A k \in 1 .. z : StoreRange(i)[k] = SourceBytes[(o + 1) + k - 1]
  BY <1>5, <1>6 DEF IsSlice
<1>8. \A k \in 1 .. z : (o + 1) + k - 1 = o + k /\ o + k \in 1 .. SourceSize BY <1>1, <1>2
<1> QED BY <1>1, <1>2, <1>4, <1>7, <1>8 DEF o, z

\* A closed reader has no file.
LEMMA StoreEmpty ==
  ASSUME listed = <<>>
  PROVE  Store = <<>>
BY DEF Store

\* What an open reader stores is files of numbers.
LEMMA StoreTyped ==
  ASSUME ZarInv, reader = "open"
  PROVE  Store \in Seq(Seq(Int))
<1>1. RoundTrip(files, listed) BY PlanOfFiles DEF ZarInv, ZarReaderInv, DirectoryPlanned, ArchiveDone
<1>2. HasLen(listed, Len(files)) /\ DOMAIN listed = 1 .. Len(files) BY <1>1 DEF RoundTrip, HasLen
<1>3. Store = [i \in DOMAIN listed |-> Number(StoreRange(i))] BY DEF Store, StoreRange
<1>4. ASSUME NEW i \in 1 .. Len(files) PROVE Store[i] \in Seq(Int)
  <2>1. i \in DOMAIN listed BY <1>2
  <2>2. HasLen(StoreRange(i), listed[i].size)
        /\ \A k \in 1 .. listed[i].size : StoreRange(i)[k] \in Byte
    BY <2>1, StoreRangeTyped
  <2>3. Number(StoreRange(i)) \in Seq(Int) BY <2>2, NumberTyped, SequenceIsSeq
  <2> QED BY <1>3, <2>1, <2>3
<1>5. HasLen(Store, Len(files)) BY <1>2, <1>3 DEF HasLen
<1> QED BY <1>4, <1>5, SequenceIsSeq

\* The files stay while the listing does.
LEMMA StoreStays ==
  ASSUME files' = files, listed' = listed
  PROVE  Store' = Store
<1>1. SourceBytes' = SourceBytes BY SourceStays
<1> QED BY <1>1 DEF Store

\* An answer with its bytes numbered.
NumberedAnswer(a) == [a EXCEPT !.bytes = Number(@)]

ReadAnswer(file, offset, len, ok, bytes) ==
  [file |-> file, offset |-> offset, len |-> len, ok |-> ok, bytes |-> bytes]

\* An answer as FileStore has it.
LEMMA AnswerNumbered ==
  ASSUME NEW file, NEW offset, NEW len, NEW ok, NEW bytes
  PROVE  NumberedAnswer(ReadAnswer(file, offset, len, ok, bytes))
           = ReadAnswer(file, offset, len, ok, Number(bytes))
<1> DEFINE a == ReadAnswer(file, offset, len, ok, bytes)
<1>a. a = [file |-> file, offset |-> offset, len |-> len, ok |-> ok, bytes |-> bytes] BY DEF ReadAnswer
<1> HIDE DEF a
<1> DEFINE n == Number(bytes)
<1>1. a.bytes = bytes BY <1>a
<1>2. Number(a.bytes) = n BY <1>1
<1> HIDE DEF n
<1>3. [a EXCEPT !.bytes = n]
    = [file |-> file, offset |-> offset, len |-> len, ok |-> ok, bytes |-> n]
  BY <1>a
<1>4. [a EXCEPT !.bytes = Number(a.bytes)] = [a EXCEPT !.bytes = n] BY <1>2
<1> QED BY <1>3, <1>4 DEF n, a, ReadAnswer, NumberedAnswer

\* The answer of a caller of FileStore.
Numbered == NumberedAnswer(answer)

\* No answer is none there either.
LEMMA NoAnswerNumbered ==
  ASSUME answer = NoAnswer
  PROVE  Numbered = NoAnswer
<1>1. Numbered = ReadAnswer(0, 0, 0, FALSE, Number(<<>>))
  <2>1. answer = ReadAnswer(0, 0, 0, FALSE, <<>>) BY DEF NoAnswer, ReadAnswer
  <2> QED BY <2>1, AnswerNumbered DEF Numbered
<1>2. Number(<<>>) = <<>> BY DEF Number
<1> QED BY <1>1, <1>2 DEF NoAnswer, ReadAnswer

\* Before opening there are no files.
LEMMA FilesInit ==
  ASSUME ZarInit
  PROVE  Files!Init
<1>1. listed = <<>> /\ answer = NoAnswer BY DEF ZarInit
<1>2. Store = <<>> /\ Numbered = NoAnswer BY <1>1, StoreEmpty, NoAnswerNumbered
<1> QED BY <1>2 DEF Files!Init, Files!NoAnswer, NoAnswer, Numbered, NumberedAnswer

\* An error is an answer to a read.
LEMMA ErrorAnswered ==
  ASSUME NEW file, NEW offset, NEW len, ReadError(file, offset, len)
  PROVE  Files!Answered(Numbered')
<1>1. answer' = ReadAnswer(file, offset, len, FALSE, <<>>) BY DEF ReadError, ReadAnswer
<1>2. Numbered' = ReadAnswer(file, offset, len, FALSE, Number(<<>>)) BY <1>1, AnswerNumbered DEF Numbered
<1> QED BY <1>2 DEF Files!Answered, ReadAnswer

\* The bytes of a range are those of the store.
LEMMA RangeAnswered ==
  ASSUME ZarInv, reader = "open", NEW file \in DOMAIN listed,
         NEW offset \in Nat, NEW len \in Nat \ {0}, InFileBounds(file, offset, len)
  PROVE  /\ file \in DOMAIN Store /\ offset + len <= Len(Store[file])
         /\ Number(RangeBytes(file, offset, len)) = SubSeq(Store[file], offset + 1, offset + len)
<1> DEFINE o == listed[file].offset
           z == listed[file].size
           bytes == RangeBytes(file, offset, len)
           s == StoreRange(file)
           part == SubSeq(Store[file], offset + 1, offset + len)
<1>1. /\ o \in Nat /\ z \in Nat /\ o + z <= SourceSize /\ SourceSize \in Nat
      /\ HasLen(s, z) /\ \A k \in 1 .. z : s[k] = SourceBytes[o + k] /\ s[k] \in Byte
  BY StoreRangeTyped
<1>2. offset + len <= z BY DEF InFileBounds
<1>3. Store = [i \in DOMAIN listed |-> Number(StoreRange(i))] BY DEF Store, StoreRange
<1>4. file \in DOMAIN Store /\ Store[file] = Number(s) BY <1>3
<1>5. bytes = [k \in 1 .. len |-> SourceBytes[o + offset + k]] BY RangeRight
<1> HIDE DEF o, z, s, bytes
<1>6. /\ HasLen(Number(s), z)
      /\ \A k \in 1 .. z : Number(s)[k] = s[k].file * (Word * Half) + s[k].pos
  BY <1>1, NumberTyped
<1>7. Len(Store[file]) = z BY <1>4, <1>6, SequenceLength
<1>8. offset + 1 \in 1 .. z + 1 /\ offset + len \in (offset + 1) - 1 .. z
      /\ (offset + len) - (offset + 1) + 1 = len
  BY <1>1, <1>2
<1>9. IsSlice(part, Number(s), offset + 1, offset + len) BY <1>4, <1>6, <1>8, SubSeqIsSlice
<1>10. HasLen(part, len) /\ \A k \in 1 .. len : part[k] = Number(s)[(offset + 1) + k - 1]
  BY <1>8, <1>9 DEF IsSlice
<1>11. \A k \in 1 .. len : /\ (offset + 1) + k - 1 = offset + k /\ offset + k \in 1 .. z
                           /\ o + (offset + k) = o + offset + k
  BY <1>1, <1>2
<1>12. \A k \in 1 .. len : bytes[k] = s[offset + k] /\ bytes[k] \in Byte BY <1>1, <1>5, <1>11
<1>13. HasLen(bytes, len) BY <1>5 DEF HasLen
<1>14. /\ HasLen(Number(bytes), len)
       /\ \A k \in 1 .. len : Number(bytes)[k] = bytes[k].file * (Word * Half) + bytes[k].pos
  BY <1>12, <1>13, NumberTyped
<1> HIDE DEF part
<1>15. \A k \in 1 .. len : Number(bytes)[k] = part[k]
  <2> SUFFICES ASSUME NEW k \in 1 .. len PROVE Number(bytes)[k] = part[k] OBVIOUS
  <2>1. part[k] = Number(s)[offset + k] BY <1>10, <1>11
  <2>2. Number(s)[offset + k] = s[offset + k].file * (Word * Half) + s[offset + k].pos BY <1>6, <1>11
  <2> QED BY <1>12, <1>14, <2>1, <2>2
<1>16. Number(bytes) = part BY <1>10, <1>14, <1>15, SequenceSame
<1> QED BY <1>2, <1>4, <1>7, <1>16 DEF bytes, part

\* Every read answers with the range asked for, or an error.
LEMMA ReadAnswered ==
  ASSUME ZarInv, NEW file \in DOMAIN listed, NEW offset \in ReadOffsets, NEW len \in ReadLengths,
         ReadStep(file, offset, len)
  PROVE  Files!Read
<1>1. /\ reader = "open" /\ listed' = listed /\ files' = files
      /\ offset \in Nat /\ len \in Nat \ {0}
  BY ReadStepKeeps, ZarReaderAssumption
<1>2. Store' = Store BY <1>1, StoreStays
<1>3. CASE ReadError(file, offset, len)
  BY <1>2, <1>3, ErrorAnswered DEF Files!Read, Numbered, NumberedAnswer
<1>4. CASE ~ReadError(file, offset, len)
  <2>1. ReadFileRange(file, offset, len) BY <1>4 DEF ReadStep, ReadPastEnd, BlockReadFails
  <2> DEFINE bytes == RangeBytes(file, offset, len)
  <2>2. /\ InFileBounds(file, offset, len)
        /\ answer' = ReadAnswer(file, offset, len, TRUE, bytes)
    BY <1>4, <2>1 DEF ReadFileRange, ReadAnswer
  <2>3. /\ file \in DOMAIN Store /\ offset + len <= Len(Store[file])
        /\ Number(bytes) = SubSeq(Store[file], offset + 1, offset + len)
    BY <1>1, <2>2, RangeAnswered
  <2> HIDE DEF bytes
  <2>4. Numbered' = ReadAnswer(file, offset, len, TRUE, Number(bytes))
    BY <2>2, AnswerNumbered DEF Numbered
  <2>5. /\ Numbered'.file = file /\ Numbered'.offset = offset /\ Numbered'.len = len
        /\ Numbered'.bytes = Number(bytes)
    BY <2>4 DEF ReadAnswer
  <2>6. Files!Answered(Numbered') BY <2>3, <2>5 DEF Files!Answered, Files!InRange
  <2>7. Files!Answered(Numbered)' BY <1>2, <2>3, <2>5 DEF Files!Answered, Files!InRange
  <2> QED BY <1>2, <2>6, <2>7 DEF Files!Read, Numbered, NumberedAnswer
<1> QED BY <1>3, <1>4

\* Every step is one of FileStore, or none.
LEMMA FilesStep == ZarInv /\ ZarInv' /\ [ZarNext]_zarVars => [Files!Next]_(Files!vars)
<1> SUFFICES ASSUME ZarInv, ZarInv', [ZarNext]_zarVars PROVE [Files!Next]_(Files!vars) OBVIOUS
<1>1. CASE (WriterCall \/ FileReadFails) /\ UNCHANGED zarReaderVars
  <2>1. reader = "closed" /\ listed' = listed /\ answer' = answer BY <1>1, WriterStepKeeps
  <2>2. listed = <<>> BY <2>1 DEF ZarInv, ZarReaderInv
  <2>3. Store = <<>> /\ Store' = <<>> BY <2>1, <2>2 DEF Store
  <2> QED BY <2>1, <2>3 DEF Files!vars
<1>2. CASE OpenReader
  <2>1. reader = "closed" /\ reader' = "open" /\ answer' = answer BY <1>2, OpenStep DEF OpenReader
  <2>2. listed = <<>> /\ answer = NoAnswer BY <2>1 DEF ZarInv, ZarReaderInv
  <2>3. Store = <<>> /\ Numbered = NoAnswer BY <2>2, StoreEmpty, NoAnswerNumbered
  <2>4. Store' \in Seq(Seq(Int))
    <3>1. (ZarInv /\ reader = "open" => Store \in Seq(Seq(Int)))' BY StoreTyped, PTL
    <3> QED BY <2>1, <3>1
  <2>5. Numbered' = NoAnswer BY <2>1, <2>3 DEF Numbered
  <2> QED
    BY <2>3, <2>4, <2>5 DEF Files!Next, Files!Open, Files!NoAnswer, NoAnswer, Numbered, NumberedAnswer
<1>3. ASSUME NEW file \in DOMAIN listed, NEW offset \in ReadOffsets, NEW len \in ReadLengths,
             ReadStep(file, offset, len)
      PROVE  Files!Next
  BY <1>3, ReadAnswered DEF Files!Next
<1>4. CASE UNCHANGED zarVars
  <2>1. files' = files /\ listed' = listed /\ answer' = answer
    BY <1>4 DEF zarVars, zarReaderVars, writerVars, sessionVars, planVars
  <2> QED BY <2>1, StoreStays DEF Files!vars
<1> QED BY <1>1, <1>2, <1>3, <1>4 DEF ZarNext, Ended

\* The reader implements FileStore: a range that can be read is that range of
\* the source.
THEOREM ReadsTheSource == ZarSpec => ImplementsFileStore
<1>1. ZarInit => Files!Init BY FilesInit
<1>2. ZarInv /\ ZarInv' /\ [ZarNext]_zarVars => [Files!Next]_(Files!vars) BY FilesStep
<1> QED BY ZarInvariant, <1>1, <1>2, PTL DEF ZarSpec, ImplementsFileStore, Files!Spec
=============================================================================
