------------------------------ MODULE MCStorage ------------------------------
(***************************************************************************)
(* Small instances of the cluster's control plane and of what is kept on   *)
(* disk: the cluster bridge, the Raft storage, the CRDT store, the         *)
(* journal, the frames of a replication connection, the SQL import, the    *)
(* database passphrase, and the settings page with its cluster switch;     *)
(* and of the proxy's unary and WebSocket handlers, which like these need  *)
(* no fairness.  They share no state; focus says whose steps a behaviour   *)
(* takes.                                                                  *)
(***************************************************************************)
EXTENDS ClusterBridge, RaftStorage, CrdtStore, PersistentJournal, RpcIngress, SqlImport,
        DatabasePassphrase, SettingsDraft, ProxyHandlers, TLC

CONSTANTS
    a1, a2,        \* sync addresses
    w1, w2, w3,    \* workers of the CRDT store
    e1, e2, g1     \* e-mail addresses and a chatgpt account id

VARIABLE focus

MCIdentity == (a1 :> 3) @@ (a2 :> 2)

MCPeerLists == {<<>>, <<a1, a2>>}

MCSiteOf == (w1 :> 1) @@ (w2 :> 1) @@ (w3 :> 2)

SourceRow(c, e, t, s) == [chatgpt |-> c, email |-> e, token |-> t, status |-> s]

MCRows == {SourceRow(g1, e1, "plain", "paused"), SourceRow(g1, e2, "fernet", INone),
           SourceRow(INone, e1, "sealed", "quota_exceeded"), SourceRow(INone, INone, "plain", INone),
           SourceRow(INone, e2, INone, INone)}

TableRow(c, e, p) ==
    [chatgpt |-> c, email |-> e, token |-> "sealed", status |-> "active", pinned |-> p]

MCDestinations == {<<TableRow(INone, e1, TRUE)>>,
                   <<TableRow(g1, e2, FALSE), TableRow(INone, e1, FALSE)>>}

vars ==
    <<clusterVars, raftVars, crdtVars, journalVars, rpcVars, importVars, passVars, draftVars,
      handlerVars, focus>>

Init ==
    /\ focus \in {"cluster", "raft", "crdt", "journal", "rpc", "import", "passphrase",
                 "settings", "handlers"}
    /\ ClusterInit /\ RaftInit /\ JournalInit /\ HandlersInit
    /\ CrdtInit /\ (focus # "crdt" => kind = "counter")
    /\ RpcInit /\ (focus # "rpc" => wire = <<>>)
    /\ ImportInit /\ (focus # "import" => Len(accounts) = 1)
    /\ PassphraseInit /\ (focus # "passphrase" => file = MissingFile)
    /\ DraftInit /\ kept = [defaultDashboardSettings EXCEPT !.schema = MaxVersion]

Next ==
    \/ /\ focus = "cluster" /\ ClusterNext
       /\ UNCHANGED <<raftVars, crdtVars, journalVars, rpcVars, importVars,
                      passVars, draftVars, handlerVars, focus>>
    \/ /\ focus = "raft" /\ RaftNext
       /\ UNCHANGED <<clusterVars, crdtVars, journalVars, rpcVars, importVars,
                      passVars, draftVars, handlerVars, focus>>
    \/ /\ focus = "crdt" /\ CrdtNext
       /\ UNCHANGED <<clusterVars, raftVars, journalVars, rpcVars, importVars,
                      passVars, draftVars, handlerVars, focus>>
    \/ /\ focus = "journal" /\ JournalNext
       /\ UNCHANGED <<clusterVars, raftVars, crdtVars, rpcVars, importVars,
                      passVars, draftVars, handlerVars, focus>>
    \/ /\ focus = "rpc" /\ RpcNext
       /\ UNCHANGED <<clusterVars, raftVars, crdtVars, journalVars, importVars,
                      passVars, draftVars, handlerVars, focus>>
    \/ /\ focus = "import" /\ ImportNext
       /\ UNCHANGED <<clusterVars, raftVars, crdtVars, journalVars, rpcVars,
                      passVars, draftVars, handlerVars, focus>>
    \/ /\ focus = "passphrase" /\ PassphraseNext
       /\ UNCHANGED <<clusterVars, raftVars, crdtVars, journalVars, rpcVars,
                      importVars, draftVars, handlerVars, focus>>
    \/ /\ focus = "settings" /\ DraftNext
       /\ UNCHANGED <<clusterVars, raftVars, crdtVars, journalVars, rpcVars,
                      importVars, passVars, handlerVars, focus>>
    \/ /\ focus = "handlers" /\ HandlersNext
       /\ UNCHANGED <<clusterVars, raftVars, crdtVars, journalVars, rpcVars,
                      importVars, passVars, draftVars, focus>>

Spec == Init /\ [][Next]_vars

=============================================================================
