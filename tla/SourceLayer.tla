---------------------------- MODULE SourceLayer -----------------------------
(***************************************************************************)
(* The source layer (src/crate/src/core/source.rs and the entry points of  *)
(* src/crate/src/lib.rs): how a format is detected, what it takes to open  *)
(* a source, and what is read off one that is open: its title and content  *)
(* type, and the executable an attach XBE is made of.                      *)
(*                                                                         *)
(* A source is what stands behind the read functions of the caller; it     *)
(* does not change.  Each call may meet one read that fails, at a stage:   *)
(* "walk" (of the directory tables), "exe", "thumbnail", "account".        *)
(***************************************************************************)
EXTENDS Integers, SequencesExt, FiniteSetsExt, TLC

CONSTANTS
  Sources,      \* what JavaScript may pass
  Lower         \* file name |-> its ASCII lower case

None == "none"

\* What a file holds of an account: the key that opens it and what it says.
NoAccount == [key |-> None, gamertag |-> None, xuid |-> None]
Account == [key : STRING, gamertag : STRING, xuid : STRING \ {None}] \cup {NoAccount}

\* A file of a source: its name, the title id its execution information
\* gives, and the account it holds, if it is that kind of file.
File == [name : DOMAIN Lower, exe : STRING, account : Account]

ASSUME SourceAssumption == \A source \in Sources : source.files \in Seq(File)

\* The magic of a package that a console has signed.
MAGIC_CON == "CON "

\* ContentType::requires_launch_executable()
Bootable ==
  {"gamesOnDemand", "xboxOriginal", "arcadeGame", "xbox360Title", "installedGame",
   "gameDemo", "communityGame", "xna"}

\* ContentType: the types the code has a name for.
Recognised == Bootable \cup
  {"video", "savedGame", "marketPlaceContent", "publisher", "iptvPauseBuffer",
   "avatarAssetPack", "avatarItem", "profile", "gamerPicture", "theme", "cacheFile",
   "storageDownload", "xboxSavedGame", "xboxDownload", "gamerTitle", "installer",
   "gameTrailer", "licenseStore", "movie", "tv", "musicVideo", "gameVideo",
   "podcastVideo", "viralVideo"}

\* ContentType::from_u32(): none if it has no name.
TypeNamed(type) == IF type \in Recognised THEN type ELSE None

Images == {"xiso", "ciso", "cci", "god"}

-----------------------------------------------------------------------------
(* Detecting and opening                                                     *)

\* detect(): the magic at the beginning decides, then the one at the end.
DetectFormat(source) ==
  IF source.head = "CISO" THEN "ciso"
  ELSE IF source.head = "CCIM" THEN "cci"
  ELSE IF source.head \in {MAGIC_CON, "LIVE", "PIRS"} THEN "stfs"
  ELSE IF source.tail = "ZAR" THEN "zar" ELSE "xiso"

\* detect_dir(): the kinds of files in a folder's listing tell its shape; a
\* loose disc image beside a loose executable makes it anybody's guess.
DetectDir(listing) ==
  IF "god data" \in listing THEN "god"
  ELSE IF "executable" \in listing /\ "disc image" \notin listing THEN "extracted"
  ELSE "unresolved"

Detected(source) ==
  IF source.array THEN DetectDir(source.listing) ELSE DetectFormat(source)

\* parts_from_js(): without an array of parts the one file stands for itself,
\* a part without a name; an empty array is an error.
PartCount(source) == IF source.array THEN source.count ELSE 1

\* open_source() and open(): the format must be resolved, the number of parts
\* fit it, loose files have names, and the container be what it is opened as.
CanOpen(source, format) ==
  /\ format # "unresolved"
  /\ PartCount(source) > 0
  /\ format \in {"zar", "stfs"} => PartCount(source) = 1
  /\ format = "extracted" => source.array
  /\ format = source.format
  /\ source.sound

NotProbed == [ok |-> FALSE, files |-> <<>>, type |-> None, title |-> None]

\* SourceInner: an image with the probe cached for it, or a view of files.
NotOpen == [state |-> "closed", probed |-> NotProbed]
Opened(source, format) ==
  IF ~CanOpen(source, format) THEN NotOpen
  ELSE [state |-> IF format \in Images THEN "image" ELSE "fs", probed |-> NotProbed]

-----------------------------------------------------------------------------
(* Title information                                                         *)

Named(files, name) == {i \in DOMAIN files : Lower[files[i].name] = name}

NoTitle == [ok |-> FALSE, type |-> None, title |-> None]

\* title_info_from_exe_bytes(), and the reading of a header in from_image():
\* no title without execution information.
TitleOf(file, type) ==
  IF file.exe = None THEN NoTitle ELSE [ok |-> TRUE, type |-> type, title |-> file.exe]

\* TitleInfo::from_image(): the first default.xex, else the first default.xbe.
ImageTitle(files, fault) ==
  LET xex == Named(files, "default.xex")
      xbe == Named(files, "default.xbe")
  IN IF fault = "exe" THEN NoTitle
     ELSE IF xex # {} THEN TitleOf(files[Min(xex)], "gamesOnDemand")
     ELSE IF xbe # {} THEN TitleOf(files[Min(xbe)], "xboxOriginal") ELSE NoTitle

\* find_launch_executable() of a view of files: a default.xbe found later wins.
FsLaunch(files) ==
  LET xex == Named(files, "default.xex")
      xbe == Named(files, "default.xbe")
  IN IF xex # {} THEN Min(xex) ELSE IF xbe # {} THEN Max(xbe) ELSE 0

IsXex(files, i) == Lower[files[i].name] = "default.xex"

\* read_launch_executable()
ReadsLaunch(files, fault) == FsLaunch(files) # 0 /\ fault # "exe"

FsTitle(files, fault) ==
  LET exe == FsLaunch(files)
  IN IF ~ReadsLaunch(files, fault) THEN NoTitle
     ELSE TitleOf(files[exe], IF IsXex(files, exe) THEN "gamesOnDemand" ELSE "xboxOriginal")

\* ProbedDirectoryTable::probe(): the tree and the title, or an error.
Probe(source, fault) ==
  LET info == ImageTitle(source.files, fault)
  IN IF source.walks /\ fault # "walk" /\ info.ok
     THEN [ok |-> TRUE, files |-> source.files, type |-> info.type, title |-> info.title]
     ELSE NotProbed

\* SourceInner::probed(): a probe that fails is not remembered.
Probed(opened, source, fault) ==
  IF opened.probed.ok THEN opened.probed ELSE Probe(source, fault)

-----------------------------------------------------------------------------
(* inspect() and generateAttachXbe()                                         *)

\* What a call answers; a session has fields of its own.
Threw == [ok |-> FALSE, type |-> None, title |-> None]
Answered(type, title) == [ok |-> TRUE, type |-> type, title |-> title]

\* The content type the container's own header declares, if it has a name.
DeclaredType(source) == TypeNamed(source.declared)

Or(first, second) == IF first # None THEN first ELSE second

\* inspect_source(): the header's type replaces the one in the answer.
InspectImage(source, probed, thumbnail, fault) ==
  IF ~probed.ok \/ (thumbnail /\ fault = "thumbnail") THEN Threw
  ELSE Answered(Or(DeclaredType(source), probed.type), probed.title)

\* inspect_extracted(): content that needs no executable does without.
InspectFs(source, fault) ==
  LET info == FsTitle(source.files, fault)
      type == DeclaredType(source)
  IN IF ReadsLaunch(source.files, fault)
     THEN IF info.ok THEN Answered(Or(type, info.type), info.title) ELSE Threw
     ELSE IF type = None \/ type \in Bootable THEN Threw ELSE Answered(type, "0")

\* OpenedSource::inspect() and inspectSource().
InspectAnswer(opened, source, thumbnail, fault) ==
  IF opened.state = "image"
  THEN InspectImage(source, Probed(opened, source, fault), thumbnail, fault)
  ELSE InspectFs(source, fault)

\* generate_attach_xbe_from(): only for a title that boots a default.xbe; the
\* stub takes the title of the executable it is given.
AttachImage(probed, fault) ==
  LET xbe == Named(probed.files, "default.xbe")
  IN IF ~probed.ok \/ probed.type # "xboxOriginal" \/ xbe = {} \/ fault = "exe" THEN Threw
     ELSE LET title == TitleOf(probed.files[Min(xbe)], "xboxOriginal").title
          IN IF title = None THEN Threw ELSE Answered("xboxOriginal", title)

AttachFs(source, fault) ==
  LET exe == FsLaunch(source.files)
  IN IF ~ReadsLaunch(source.files, fault) THEN Threw
     ELSE IF IsXex(source.files, exe) \/ source.files[exe].exe = None THEN Threw
     ELSE Answered("xboxOriginal", source.files[exe].exe)

AttachAnswer(opened, source, fault) ==
  IF opened.state = "image" THEN AttachImage(Probed(opened, source, fault), fault)
  ELSE AttachFs(source, fault)

\* Faulty: inspect() puts the header's type into what it keeps.
AfterProbingDeclared(opened, source, fault) ==
  IF opened.state # "image" THEN opened
  ELSE LET p == Probed(opened, source, fault)
       IN [opened EXCEPT !.probed =
             IF p.ok THEN [p EXCEPT !.type = Or(DeclaredType(source), p.type)] ELSE p]

\* What a call leaves behind in the handle: inspecting and attaching probe an
\* image, and keep what they probed even if they throw later.
AfterProbing(opened, source, fault) ==
  IF opened.state # "image" THEN opened
  ELSE [opened EXCEPT !.probed = Probed(opened, source, fault)]
=============================================================================
