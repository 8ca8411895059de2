----------------------------- MODULE MuxService -----------------------------
(***************************************************************************)
(* MuxSession implements StreamService: the ends of the service are the    *)
(* logical streams, seen without the state only the sessions care about.   *)
(***************************************************************************)
EXTENDS MuxSession

Service ==
  INSTANCE StreamService
  WITH Ids <- StreamIds,
       ends <- [s \in Side |->
                  [k \in DOMAIN logical[s] |->
                     [id |-> logical[s][k].id, by |-> logical[s][k].by,
                      sent |-> logical[s][k].sent, got |-> logical[s][k].got]]]

\* The two actors, whatever the interleaving of frames, commands and stream
\* events, give the applications what StreamService promises: open_stream
\* returns a stream only after the peer has registered the other end, an id
\* names one stream, and recv_frame yields the peer's data frames in order,
\* none missing, none twice.
ImplementsService == Service!Spec
=============================================================================
