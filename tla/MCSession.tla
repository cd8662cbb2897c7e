----------------------------- MODULE MCSession ------------------------------
(***************************************************************************)
(* Sources and options for Session: images with and without an executable, *)
(* packages of several types and loose files.                              *)
(***************************************************************************)
EXTENDS Session

MCLower == [n \in {"default.xex", "Default.xbe", "default.xbe", "Account", "account", "data"} |->
              CASE n = "Default.xbe" -> "default.xbe" [] n = "Account" -> "account" [] OTHER -> n]

NewFile(name, exe) == [name |-> name, exe |-> exe, account |-> NoAccount]
AccountFile(name, key) ==
  [name |-> name, exe |-> None, account |-> [key |-> key, gamertag |-> "old tag", xuid |-> "old xuid"]]
Xex == NewFile("default.xex", "T1")
Xbe == NewFile("Default.xbe", "T2")
Data == NewFile("data", None)

\* An image in one file.
Image(head, format, files) ==
  [head |-> head, tail |-> None, format |-> format, array |-> FALSE, count |-> 1, sound |-> TRUE,
   walks |-> TRUE, listing |-> {}, declared |-> None, files |-> files, package |-> NoPackage]

\* A package with a header of its own.
Package1(type, files, ids, metadata) ==
  [Image("CON ", "stfs", files) EXCEPT
     !.declared = type,
     !.package = [magic |-> "CON ", type |-> type, title |-> "T3", name |-> "old name",
                  ids |-> ids, metadata |-> metadata, licenses |-> "licenses"]]

OldIds == [id \in Ids |-> IF id = "console_id" THEN "old console" ELSE "old xuid"]
Avatar == [NoMetadata EXCEPT !.avatarItem = "avatar", !.installer = "installer"]

\* Loose files.
Folder(files) ==
  [Image(None, "extracted", files) EXCEPT
     !.array = TRUE, !.count = Len(files),
     !.listing = IF \E i \in DOMAIN files : files[i].exe # None THEN {"executable"} ELSE {}]

MCSources ==
  {[Image(None, "god", <<Xex, Data>>) EXCEPT !.array = TRUE, !.listing = {"god data"},
                                       !.declared = "arcadeGame"],
   Image(None, "xiso", <<Data, Xbe>>), Image(None, "xiso", <<Data>>),
   [Image("CCIM", "cci", <<Xbe>>) EXCEPT !.walks = FALSE],
   Package1("profile", <<Data, AccountFile("Account", "retail")>>, OldIds, NoMetadata),
   Package1("profile", <<AccountFile("Account", "corrupt")>>, NoIds, NoMetadata),
   Package1("profile", <<AccountFile("account", "devkit"), AccountFile("Account", "retail")>>,
            OldIds, NoMetadata),
   Package1("0x99", <<Xex>>, OldIds, Avatar),
   Package1("avatarItem", <<NewFile("default.xex", None), Data>>, OldIds, Avatar),
   Package1("avatarItem", <<Xex>>, OldIds, Avatar),
   Folder(<<AccountFile("account", "devkit"), Xbe>>), Folder(<<AccountFile("Account", "devkit"), Xex>>),
   Folder(<<>>), [Folder(<<Data>>) EXCEPT !.array = FALSE],
   [Folder(<<Data, Xex>>) EXCEPT !.listing = {"executable", "disc image"}],
   [Image("CISO", "zar", <<Xbe>>) EXCEPT !.tail = "ZAR"],
   [Image("data", "zar", <<Xbe>>) EXCEPT !.tail = "ZAR", !.sound = FALSE]}

\* What a caller passes: the format detected, the one it knows, or none.
MCRefs == {"xiso", "ciso", "cci", "god", "extracted", "zar", "stfs", "unresolved"}

NewTag == [asked |-> TRUE, gamertag |-> "new tag", xuid |-> None]
NewXuid == [asked |-> TRUE, gamertag |-> None, xuid |-> "new xuid"]
Overriding == [NoIds EXCEPT !["device_id"] = "new device", !["profile_id"] = "new profile"]

MCOptions ==
  {[Defaults("cci") EXCEPT !.full = FALSE], Defaults("ciso"), Defaults("zar"), Defaults("extracted"),
   [Defaults("xiso") EXCEPT !.split = TRUE], [Defaults("xiso") EXCEPT !.full = FALSE],
   [Defaults("god") EXCEPT !.full = FALSE], [Defaults("god") EXCEPT !.key = "key", !.ids = Overriding],
   Defaults("stfs"), [Defaults("stfs") EXCEPT !.key = "bad"],
   [Defaults("stfs") EXCEPT !.key = "key", !.ids = Overriding],
   [Defaults("stfs") EXCEPT !.contentType = "avatarItem", !.titleId = "T9"],
   [Defaults("stfs") EXCEPT !.contentType = "avatarItem"],
   [Defaults("stfs") EXCEPT !.transfer = NewTag, !.ids = Overriding],
   [Defaults("stfs") EXCEPT !.transfer = NewXuid, !.key = "key"],
   [Defaults("stfs") EXCEPT !.transfer = [NewTag EXCEPT !.gamertag = None]]}

\* The list of games begins with title 0.
MCListed == {"0", "T1", "T9"}
=============================================================================
