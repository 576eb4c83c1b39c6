------------------------------ MODULE MCStorage ------------------------------
(***************************************************************************)
(* An image in the storage's folder and one in a folder inside it.         *)
(***************************************************************************)
EXTENDS StorageService, TLC

MCNames == {"cat.jpg", "pets/dog.jpg"}
MCFolders == {"database", "database/pets"}
MCFolderOf == "cat.jpg" :> "database" @@ "pets/dog.jpg" :> "database/pets"
MCParent == "database" :> NoFolder @@ "database/pets" :> "database"
=============================================================================
