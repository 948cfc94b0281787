\* A line with a listing of up to two photos, two versions of its terms, two reviewers.
SPECIFICATION Spec
CONSTANTS
    Lines = {l1}
    Listed = l1
    Terms = {t1, t2}
    Photos = {p1, p2}
    MaxPhotos = 2
    Reviewers = {r1, r2}
    Lookalikes = FALSE
    None = None
SYMMETRY Interchangeable
INVARIANTS
    OnlyReviewedIsSold
    ShownPhotosKeepTheirFiles
    RestorableLinesWentDownWithTheShop
