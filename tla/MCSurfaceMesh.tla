---------------------------- MODULE MCSurfaceMesh -----------------------------
(* Two meshes that begin alike: as an edge with a face around it and two   *)
(* lonely vertices, or as two edges between two vertices with a face on    *)
(* either side.                                                            *)
EXTENDS SurfaceMesh, TLC

CONSTANTS m1, m2   \* the two meshes

MCMeshes == {m1, m2}
MCSymmetry == Permutations(MCMeshes)

Edge == Connect(WithEdge(WithVertex(WithVertex(NoConnectivity, 0), 1), 0),
                0, 0, Null, 1, Null)

Lonely == Fill(WithFace(WithVertex(WithVertex(Edge, 2), 3), 0), 0, 0)

Digon == LET c == Connect(WithEdge(Edge, 2), 2, 0, 1, 1, 0)
             d == Fill(WithFace(c, 0), 0, 0)
         IN  Fill(WithFace(d, 1), 1, 1)

MCFirsts == {Lonely, Digon}

MCMaxSize == [vertices |-> 8, edges |-> 4, faces |-> 4]
===============================================================================
