------------------------------ MODULE MCRuntime ------------------------------
EXTENDS Runtime, TLC
CONSTANTS ring, callback, event, text
\* A local ring buffer, and a remote callback that may panic and log.
MCCapability == ring :> "LocalRetained" @@ callback :> "Remote"
MCDetail   == ring :> "Full" @@ callback :> "Core"
MCKind     == event :> "Event" @@ text :> "AdHocText"
MCFieldsOf == event :> {<<"SupportSafe", "Core">>, <<"LocalOnly", "Detail">>,
                        <<"Secret", "Core">>} @@ text :> {}
MCMatches  == ring :> {event, text} @@ callback :> {event, text}
ThreadSymmetry == Permutations(Threads)
=============================================================================
