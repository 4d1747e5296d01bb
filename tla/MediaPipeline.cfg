\* A photo and a film are uploaded and processed while two posts claim them.
CONSTANTS
    photo = photo
    film = film
    p1 = p1
    p2 = p2
    Media = {photo, film}
    Photos = {photo}
    Posts = {p1, p2}
    NoPost = NoPost
    MaxAttempts = 2
SPECIFICATION FairSpec
\* Both media may be attached and settled, and nothing is left to do.
CHECK_DEADLOCK FALSE
INVARIANTS
    KeysAreStored
    JobsMatchRows
    PostsAreWhole
PROPERTY AnsweredSettles
