------------------------ MODULE MCExtensionDownloader ------------------------
(* Small instances of ExtensionDownloader for TLC. *)
EXTENDS ExtensionDownloader

File(n) == [folder |-> FALSE, length |-> n]
Folder(n) == [folder |-> TRUE, length |-> n]

(* Archives of files only, as vsce packs them. *)
Files == <<<<File(3), File(4)>>, <<File(3)>>>>

(* Both archives list folders, the second one a folder inside another. *)
Folders == <<<<File(3), Folder(3), File(4)>>,
             <<Folder(2), Folder(4), File(6), File(5)>>>>

=============================================================================
