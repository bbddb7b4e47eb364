---------------------------- MODULE MCRequests ------------------------------
(* Documents for every facet of an item, and names of up to two parts.    *)
EXTENDS Requests

Remote == {"remoteItem", "remoteItem.id", "remoteItem.parentReference.driveId",
           "remoteItem.parentReference.id"}

ItemDocs ==
  {{"id", "name", "createdBy"} \union kind \union ref \union remote :
     kind \in SUBSET {"file", "folder"},
     ref \in {{}, {"parentReference.driveId"}},
     remote \in {{}, Remote, Remote \union {"remoteItem.file"}, Remote \union {"remoteItem.folder"}}}

MCDocs ==
  [item |-> ItemDocs,
   message |-> {{"id", "bodyPreview"},
                {"id", "from", "subject", "body.content", "toRecipients", "ccRecipients"}},
   mailFolder |-> {{"id", "displayName"}},
   user |-> {{"emailAddresses", "mail"}, {"mail", "displayName"}},
   contactFolder |-> {{"id", "displayName"}},
   drive |-> {{"id", "driveType"}, {"id", "name"}}]

MCNames == {<<>>} \union {<<p>> : p \in Parts} \union {<<p, "x">> : p \in Parts}
                  \union {<<"x", p>> : p \in Parts}
=============================================================================
