---------------------------- MODULE StfsIdentity ----------------------------
(***************************************************************************)
(* What a converted STFS package says of itself: the resolution of every   *)
(* identity field of its header (open_inner in                             *)
(* src/crate/src/formats/stfs/write.rs), and the transfer of a profile,    *)
(* which rewrites the Account file of a package before it is converted     *)
(* (src/crate/src/lib.rs and src/crate/src/core/xprofile/transfer.rs).     *)
(*                                                                         *)
(* A field is overridden by an option, "bad" when it has the wrong length; *)
(* the header of a source holds a value for each field, or there is no     *)
(* header.                                                                 *)
(***************************************************************************)
EXTENDS SourceLayer

CONSTANT Listed   \* the title ids the list of games has a name for

Ids == {"console_id", "profile_id", "device_id", "online_creator"}
Zeroed == "zero"

NoIds == [id \in Ids |-> None]
NoMetadata == [avatarItem |-> None, video |-> None, installer |-> None]
NoPackage ==
  [magic |-> None, type |-> None, title |-> None, name |-> None, ids |-> NoIds,
   metadata |-> NoMetadata, licenses |-> None]
NoTransfer == [asked |-> FALSE, gamertag |-> None, xuid |-> None]

\* The fields of a header.
Header ==
  [magic : STRING, type : STRING, title : STRING, name : STRING, ids : [Ids -> STRING],
   metadata : [avatarItem : STRING, video : STRING, installer : STRING], licenses : STRING]

\* Nothing but a package has a header of its own.
ASSUME HeaderAssumption ==
  \A source \in Sources :
    /\ source.package \in Header
    /\ source.format # "stfs" => source.package = NoPackage

\* find_title_by_id()
ListedName(title) == IF title \in Listed THEN title ELSE None

-----------------------------------------------------------------------------
(* Profile transfer                                                          *)

\* The filesystem view a call works on, with the file overridden in it.
View(source) == source.files

FirstNamed(files, name) == LET s == {i \in DOMAIN files : files[i].name = name}
                           IN IF s = {} THEN 0 ELSE Min(s)

\* find_account_index() ignores the case of the name, and override_file(),
\* which puts the changed account in its place, does not.
AccountIndex(files) == LET s == Named(files, "account") IN IF s = {} THEN 0 ELSE Min(s)

Mutate(account, transfer) ==
  [account EXCEPT !.gamertag = Or(transfer.gamertag, @), !.xuid = Or(transfer.xuid, @)]

\* XProfileAccount::parse(): a record neither key opens is an error.
Parses(account) == account.key \in {"retail", "devkit"}

Transferable(files, transfer, fault) ==
  /\ transfer.gamertag # None \/ transfer.xuid # None
  /\ transfer.xuid # "bad"
  /\ AccountIndex(files) # 0
  /\ fault # "account"
  /\ Parses(files[AccountIndex(files)].account)
  /\ FirstNamed(files, "Account") # 0

\* Faulty: the profile of the header is the one before the change.
TransferStale(files, transfer) ==
  LET account == files[AccountIndex(files)].account
  IN [files |-> [files EXCEPT ![FirstNamed(files, "Account")].account = Mutate(account, transfer)],
      profile |-> account.xuid]

\* transfer_account(): the account is rewritten with the key it was read
\* with, and its id is the one of the header.
Transfer(files, transfer) ==
  LET account == Mutate(files[AccountIndex(files)].account, transfer)
  IN [files |-> [files EXCEPT ![FirstNamed(files, "Account")].account = account],
      profile |-> account.xuid]

-----------------------------------------------------------------------------
(* open_inner()                                                              *)

\* StfsReader::open() takes the metadata of avatar items and of videos from
\* packages of that type only.
HeaderRead(package) ==
  [package EXCEPT
     !.metadata.avatarItem = IF package.type = "avatarItem" THEN @ ELSE None,
     !.metadata.video = IF package.type = "video" THEN @ ELSE None]

\* stfs_content_type(), stfs_console_id(), ...: nothing but a package has them.
StfsHeader(source) ==
  IF source.format = "stfs" THEN HeaderRead(source.package) ELSE NoPackage

\* WriteBacking::original_*(): images have none, not even GOD ones.
Original(opened, source) == IF opened.state = "image" THEN NoPackage ELSE StfsHeader(source)

\* The content type that is known by name: the option, the source's header,
\* the launch executable.
KnownType(option, original, info) == Or(option, Or(TypeNamed(original.type), info.type))

\* What is written: the raw type of the header if none is known by name.
WrittenType(known, original) == Or(known, Or(original.type, "gamesOnDemand"))

ResolvedIds(overrides, original) ==
  [id \in Ids |-> Or(overrides[id], Or(original.ids[id], Zeroed))]

\* The metadata of a type is kept if the package is still of that type.
KeptMetadata(original, known) ==
  [original.metadata EXCEPT
     !.avatarItem = IF known = "avatarItem" THEN @ ELSE None,
     !.video = IF known = "video" THEN @ ELSE None]

\* The licenses are put into the header that is signed, and only there.
KeptLicenses(original, key) ==
  IF key = None THEN Zeroed ELSE Or(original.licenses, Zeroed)

\* The title: the option, the executable, or 0 unless the type must boot.
TitleNeeded(option, known, info) == option = None /\ ~info.ok /\ known \in Bootable

ResolvedTitle(option, info) == Or(option, Or(info.title, "0"))

Package(options, original, info, overrides) ==
  LET known == KnownType(options.contentType, original, info)
      title == ResolvedTitle(options.titleId, info)
  IN [magic |-> MAGIC_CON, type |-> WrittenType(known, original), title |-> title,
      name |-> Or(options.displayName, Or(original.name, ListedName(title))),
      ids |-> ResolvedIds(overrides, original),
      metadata |-> KeptMetadata(original, known),
      licenses |-> KeptLicenses(original, options.key)]
=============================================================================
