--------------------------- MODULE MCAdminConsole ---------------------------
(* A finite instance of AdminConsole for TLC.                               *)
EXTENDS AdminConsole, TLC

Forms == {{"tenant_new", "tenant_edit", "tenant_delete", "settings"},
          {"client_edit", "client_rotate", "tenant_edit"},
          {"tenant_delete", "client_new", "sp_new", "sp_edit", "sp_delete"},
          {"smtp"},
          {"runtime", "tenant_edit", "settings"},
          {"keys"}, {"signatures"}, {"entities"}, {"services"}, {"names"}}

\* The forms that the tenant cache, and how long it keeps a tenant, depend on.
CacheForms == {{"runtime", "tenant_edit", "settings"}}

\* The parts of the metadata that one document is made of.
Vocabularies ==
    LET entity == Event("start", "Entity", "id")
        sp == {Event("start", "Sp", "none"), Event("end", "Sp", "none")}
        idp == {Event("start", "Idp", "none"), Event("end", "Idp", "none")}
        post == Event("leaf", "Acs", "post")
        cert == Event("leaf", "Cert", "text")
        keyEnd == Event("end", "Key", "none")
        Leaf(el) == {e \in Leaves : e.el = el}
    IN [keys |-> {entity, keyEnd, post} \cup sp \cup KeyDescriptors("start") \cup Leaf("Cert"),
        signatures |-> {entity, Event("start", "Sp", "none"), Event("start", "Key", "signing"), keyEnd,
                        Event("empty", "Key", "signing"), Event("empty", "Key", "encryption"), cert, post},
        entities |-> {Event("end", "Entity", "none"), Event("start", "Sp", "none"), post} \cup EntityDescriptors("start")
                         \cup (EntityDescriptors("empty") \ {Event("empty", "Entity", "blank")}),
        services |-> {entity} \cup sp \cup Leaf("Acs"),
        names |-> {entity, post} \cup sp \cup idp \cup Leaf("NameIdFormat") \cup {Event("leaf", "Organization", "text")}]

\* A client exists at the start only where the forms are about it.
MCInit == Init /\ (clients[Client] # None => "client_edit" \in load)
MCSpec == MCInit /\ [][Next]_vars

Unset == [k \in Keys |-> ""]

Interchangeable == Permutations(Requests) \cup Permutations(Entities)
=============================================================================
