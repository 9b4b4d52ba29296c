---------------------------- MODULE ResultFiles ----------------------------
(****************************************************************************)
(* The files of a result directory, their contents and the groups a        *)
(* manifest owns (crates/output/src/directory.rs).                         *)
(*                                                                         *)
(* A directory is a function from file names to contents.  The content of  *)
(* an artifact is a member of Data, so equality of contents stands for     *)
(* equality of length and SHA-256; the content of a manifest is the group  *)
(* it fingerprints, a function from the owned names to their contents.     *)
(****************************************************************************)
EXTENDS Naturals

CONSTANTS
  Names,        \* basenames a writer may give its artifacts
  Data,         \* contents a writer may produce
  MANIFEST,     \* the manifest's file name
  NoFile,       \* the content of a name with no file
  InputFile,    \* the file is (an alias of) a consumed input
  InputBytes,   \* what a read of InputFile returns
  Foreign,      \* bytes no manifest of Pelagic owns
  Size(_),      \* the bytes of all files of a directory
  Maximum       \* quota of a directory

ASSUME NamesAssumption == MANIFEST \notin Names

(* The kinds of content are told apart by their bytes.                     *)
ContentKinds == {NoFile, InputFile, Foreign}
ASSUME ContentAssumption ==
  /\ NoFile # InputFile /\ NoFile # Foreign /\ InputFile # Foreign
  /\ ContentKinds \cap Data = {}
  /\ InputBytes \in Data
  /\ \A S \in SUBSET Names : [S -> Data] \cap (ContentKinds \cup Data) = {}

Files == Names \cup {MANIFEST}

Groups == UNION {[S -> Data] : S \in SUBSET Names}

Contents(f) == IF f = MANIFEST THEN Groups \cup ContentKinds
                               ELSE Data \cup ContentKinds

Directories == {d \in [Files -> Groups \cup Data \cup ContentKinds] :
                  \A f \in Files : d[f] \in Contents(f)}

ASSUME QuotaAssumption == Maximum \in Nat /\ \A d \in Directories : Size(d) \in Nat

EmptyDirectory == [f \in Files |-> NoFile]

(* What fingerprint() hashes: an alias of an input reads as its bytes.     *)
Bytes(file) == IF file = InputFile THEN InputBytes ELSE file

(* The names a directory's manifest owns, the manifest itself left out.    *)
OwnedNames(d) == IF d[MANIFEST] \in Groups THEN DOMAIN d[MANIFEST] ELSE {}
=============================================================================
